---- MODULE Spec2Model ----
(***************************************************************************)
(* Model of the option valuation engine (backend/app): the Black-Scholes   *)
(* price and Greeks (pricing.py), the Newton-Raphson implied-volatility    *)
(* solver (vol.py), the market-price resolver, signal classifier, rate     *)
(* provider and the evaluate_contract pipeline (engine.py, utils.py).      *)
(*                                                                         *)
(* Python floats are modelled as IEEE 754 binary64 numbers: a sign, a      *)
(* 53-bit mantissa held as four base-2^14 limbs and a binary exponent,     *)
(* with signed zeros, subnormals, infinities and NaN.  +, -, *, / and      *)
(* math.sqrt round to nearest, ties to even, as the hardware does.         *)
(* math.exp, math.log, math.erf and ** are the C library's exp, log, erf   *)
(* and pow: the routines of glibc 2.36 for x86-64 processors with fused    *)
(* multiply-add, step by step, with their tables.                          *)
(*                                                                         *)
(* The endpoints of main.py are plain functions, run by the threads of the *)
(* server's pool, so that calls of the engine can be in progress at the    *)
(* same time.  The calls share no variable; what they share is the         *)
(* environment: the credentials, the table of rates behind the endpoint    *)
(* that httpx.get reads, and sys.stdout.  A call waits inside httpx.get    *)
(* (engine.py line 43) for its response, and other calls run meanwhile.    *)
(***************************************************************************)
EXTENDS Integers, Sequences, FiniteSets, TLC

----------------------------------------------------------------------------
(* Calls                                                                   *)

\* Call(f, args) is the value of the definition f_body at the arguments
\* args, the arguments evaluated first.  The definitions that are used in
\* many places are applied through it.
RECURSIVE Call(_, _)

Norm(raw) == Call("Norm", <<raw>>)
Round(neg, v, e) == Call("Round", <<neg, v, e>>)
DivStep(d, x, st) == Call("DivStep", <<d, x, st>>)
Add(x, y) == Call("Add", <<x, y>>)
Mul(x, y) == Call("Mul", <<x, y>>)
Div(x, y) == Call("Div", <<x, y>>)
Fma(x, y, z) == Call("Fma", <<x, y, z>>)
Sqrt(x) == Call("Sqrt", <<x>>)
Ln(x) == Call("Ln", <<x>>)
Erf(x) == Call("Erf", <<x>>)
Pow(x, y) == Call("Pow", <<x, y>>)
normal_pdf(x) == Call("normal_pdf", <<x>>)
normal_cdf(x) == Call("normal_cdf", <<x>>)
d1_exc(bs) == Call("d1_exc", <<bs>>)
d1(bs) == Call("d1", <<bs>>)
d2(bs) == Call("d2", <<bs>>)
call_price(bs) == Call("call_price", <<bs>>)
put_price(bs) == Call("put_price", <<bs>>)
price_exc(bs, option_type) == Call("price_exc", <<bs, option_type>>)
black_scholes_price(S, K, r, sigma, T, option_type) ==
    Call("black_scholes_price", <<S, K, r, sigma, T, option_type>>)
from_bs(bs, option_type, dd1, dd2) == Call("from_bs", <<bs, option_type, dd1, dd2>>)
black_scholes_greeks(S, K, r, sigma, T, option_type) ==
    Call("black_scholes_greeks", <<S, K, r, sigma, T, option_type>>)
iv_iterate(f) == Call("iv_iterate", <<f>>)
priced_outcome(a, l) == Call("priced_outcome", <<a, l>>)

\* e, with v evaluated first.  (In the recursive definitions below a
\* disjunct v # v, never true, does the same for an accumulator v.)
Seq2(v, e) == IF v = v THEN e ELSE v

----------------------------------------------------------------------------
(* Python floats (IEEE 754 binary64)                                       *)

\* A float is a record [cls, neg, e, m].  cls "num" is the finite value
\* (-1)^neg * M * 2^e, M the natural number whose base-W limbs, least
\* significant first, are m.  A normal float has 2^52 <= M < 2^53 and
\* EMIN <= e <= 971, a subnormal one 0 < M < 2^52 and e = EMIN, and zero
\* has M = 0 and e = 0 and keeps its sign.  cls "inf" is the infinity of
\* sign neg, cls "nan" is NaN, and cls "none" is Python's None.
W == 2^14
HalfW == 2^13
EMIN == -1074
Zero4 == <<0, 0, 0, 0>>

Dbl(neg, e, m) == [cls |-> "num", neg |-> neg, e |-> e, m |-> m]
SignedZero(neg) == Dbl(neg, 0, Zero4)
Inf(neg) == [cls |-> "inf", neg |-> neg, e |-> 0, m |-> Zero4]
NaN == [cls |-> "nan", neg |-> FALSE, e |-> 0, m |-> Zero4]
IsNaN(x) == x.cls = "nan"
IsInf(x) == x.cls = "inf"
IsZero(x) == x.cls = "num" /\ x.m = Zero4

\* Limb i of m, zero beyond its length.
L(m, i) == IF i >= 1 /\ i <= Len(m) THEN m[i] ELSE 0

MinInt(a, b) == IF a < b THEN a ELSE b

\* Carry propagation over nine raw limbs (each possibly negative or at
\* least W): nine limbs in 0..W-1 followed by the carry out of the top
\* (negative when the value is negative).
Norm_body(raw) ==
    LET t1 == raw[1]
        t2 == raw[2] + t1 \div W
        t3 == raw[3] + t2 \div W
        t4 == raw[4] + t3 \div W
        t5 == raw[5] + t4 \div W
        t6 == raw[6] + t5 \div W
        t7 == raw[7] + t6 \div W
        t8 == raw[8] + t7 \div W
        t9 == raw[9] + t8 \div W
    IN Seq2(<<t1, t2, t3, t4, t5, t6, t7, t8, t9>>,
            <<t1 % W, t2 % W, t3 % W, t4 % W, t5 % W, t6 % W, t7 % W, t8 % W,
              t9 % W, t9 \div W>>)

\* v * k for a limb vector v and 0 <= k <= W, as a normalised vector.
MagMulSmall(v, k) ==
    Norm(<<L(v, 1) * k, L(v, 2) * k, L(v, 3) * k, L(v, 4) * k, L(v, 5) * k,
           L(v, 6) * k, L(v, 7) * k, L(v, 8) * k, L(v, 9) * k>>)

\* v * 2^s for s >= 0, as a normalised vector.
ShiftLeft(v, s) ==
    LET a == s \div 14
        k == 2^(s % 14)
    IN Norm(<<L(v, 1 - a) * k, L(v, 2 - a) * k, L(v, 3 - a) * k,
              L(v, 4 - a) * k, L(v, 5 - a) * k, L(v, 6 - a) * k,
              L(v, 7 - a) * k, L(v, 8 - a) * k, L(v, 9 - a) * k>>)

\* a + b and a - b as normalised vectors; the carry (limb 10) of a - b is
\* -1 when a < b.
MagAdd(a, b) ==
    Norm(<<L(a, 1) + L(b, 1), L(a, 2) + L(b, 2), L(a, 3) + L(b, 3),
           L(a, 4) + L(b, 4), L(a, 5) + L(b, 5), L(a, 6) + L(b, 6),
           L(a, 7) + L(b, 7), L(a, 8) + L(b, 8), L(a, 9) + L(b, 9)>>)
MagDiff(a, b) ==
    Norm(<<L(a, 1) - L(b, 1), L(a, 2) - L(b, 2), L(a, 3) - L(b, 3),
           L(a, 4) - L(b, 4), L(a, 5) - L(b, 5), L(a, 6) - L(b, 6),
           L(a, 7) - L(b, 7), L(a, 8) - L(b, 8), L(a, 9) - L(b, 9)>>)

\* The index of the highest nonzero limb of v at or below i, 0 if none.
RECURSIVE TopLimb(_, _)
TopLimb(v, i) == IF i = 0 \/ v[i] # 0 THEN i ELSE TopLimb(v, i - 1)

\* The number of bits of the natural number n.
RECURSIVE BitLen(_)
BitLen(n) == IF n = 0 THEN 0 ELSE 1 + BitLen(n \div 2)

\* The number of bits of the limb vector v.
MagBits(v) ==
    LET t == TopLimb(v, MinInt(Len(v), 9))
    IN IF t = 0 THEN 0 ELSE 14 * (t - 1) + BitLen(v[t])

\* The float of sign neg, mantissa limbs v[1..4] and exponent e: infinite
\* when e is above 971.
Pack(neg, v, e) ==
    IF SubSeq(v, 1, 4) = Zero4 THEN SignedZero(neg)
    ELSE IF e > 971 THEN Inf(neg)
    ELSE Dbl(neg, e, SubSeq(v, 1, 4))

\* v * 2^e with the low s > 0 bits of v rounded away, to nearest, ties to
\* the even mantissa.
RoundShift(neg, v, e, s) ==
    LET a == s \div 14
        X == MagMulSmall(v, 2^(14 - (s % 14)))
        g == L(X, a + 1)
        sticky == g % HalfW # 0 \/ \E i \in 1..MinInt(a, 10) : X[i] # 0
        up == g >= HalfW /\ (sticky \/ L(X, a + 2) % 2 = 1)
        Q == Norm(<<L(X, a + 2) + 1, L(X, a + 3), L(X, a + 4), L(X, a + 5),
                    0, 0, 0, 0, 0>>)
    IN IF ~up THEN Pack(neg, <<L(X, a + 2), L(X, a + 3), L(X, a + 4), L(X, a + 5)>>, e + s)
       ELSE IF Q[4] = 2^11 THEN Pack(neg, <<0, 0, 0, 2^10>>, e + s + 1)
       ELSE Pack(neg, Q, e + s)

\* The float nearest to (-1)^neg * v * 2^e, v a normalised limb vector.
Round_body(neg, v, e) ==
    LET Shifted(s) ==
            IF s <= 0 THEN Pack(neg, ShiftLeft(v, -s), e + s)
            ELSE RoundShift(neg, v, e, s)
        Of(bits) ==
            IF bits = 0 THEN SignedZero(neg)
            ELSE Shifted(IF bits - 53 > EMIN - e THEN bits - 53 ELSE EMIN - e)
    IN Of(MagBits(v))

Neg(x) == IF IsNaN(x) THEN x ELSE [x EXCEPT !.neg = ~x.neg]
Abs(x) == IF IsNaN(x) THEN x ELSE [x EXCEPT !.neg = FALSE]

\* x + y for finite nonzero x and y, x of the larger exponent.
AddAligned(x, y) ==
    IF x.e - y.e >= 56 THEN x
    ELSE LET A == ShiftLeft(x.m, x.e - y.e)
             D == MagDiff(A, y.m)
         IN IF x.neg = y.neg THEN Round(x.neg, MagAdd(A, y.m), y.e)
            ELSE IF D[10] < 0 THEN Round(y.neg, MagDiff(y.m, A), y.e)
            ELSE IF MagBits(D) = 0 THEN SignedZero(FALSE)
            ELSE Round(x.neg, D, y.e)

Add_body(x, y) ==
    IF IsNaN(x) \/ IsNaN(y) THEN NaN
    ELSE IF IsInf(x) THEN (IF IsInf(y) /\ x.neg # y.neg THEN NaN ELSE x)
    ELSE IF IsInf(y) THEN y
    ELSE IF IsZero(x) THEN (IF IsZero(y) THEN SignedZero(x.neg /\ y.neg) ELSE y)
    ELSE IF IsZero(y) THEN x
    ELSE IF x.e >= y.e THEN AddAligned(x, y)
    ELSE AddAligned(y, x)

Sub(x, y) == Add(x, Neg(y))

\* a * b for mantissas a and b, as a normalised vector.
MagMul(a, b) ==
    Norm(<<a[1] * b[1],
           a[1] * b[2] + a[2] * b[1],
           a[1] * b[3] + a[2] * b[2] + a[3] * b[1],
           a[1] * b[4] + a[2] * b[3] + a[3] * b[2] + a[4] * b[1],
           a[2] * b[4] + a[3] * b[3] + a[4] * b[2],
           a[3] * b[4] + a[4] * b[3],
           a[4] * b[4], 0, 0>>)

Mul_body(x, y) ==
    IF IsNaN(x) \/ IsNaN(y) THEN NaN
    ELSE IF IsInf(x) \/ IsInf(y)
    THEN (IF IsZero(x) \/ IsZero(y) THEN NaN ELSE Inf(x.neg # y.neg))
    ELSE Round(x.neg # y.neg, MagMul(x.m, y.m), x.e + y.e)

\* The finite nonzero float x with its mantissa brought to 53 bits, the
\* exponent unbounded below.
Normal(x) ==
    LET sh == 53 - MagBits(x.m)
    IN IF x.m[4] >= 2^10 THEN x
       ELSE [x EXCEPT !.m = SubSeq(ShiftLeft(x.m, sh), 1, 4), !.e = x.e - sh]

\* floor(v / 2^s) for s >= 0 as limbs q, and whether bits of v were lost.
ShiftRight(v, s) ==
    LET a == s \div 14
        k == 2^(s % 14)
        Limb(i) == L(v, i) \div k + (L(v, i + 1) % k) * (W \div k)
    IN [q |-> <<Limb(a + 1), Limb(a + 2), Limb(a + 3), Limb(a + 4), Limb(a + 5),
                Limb(a + 6), Limb(a + 7), Limb(a + 8), Limb(a + 9)>>,
        lost |-> L(v, a + 1) % k # 0 \/ \E i \in 1..MinInt(a, 9) : L(v, i) # 0]

\* x * y + z rounded once, for finite nonzero x, y and z with 53-bit
\* mantissas; d is the exponent of the product x.m * y.m less that of z.
\* Near: the product and z are brought to one exponent and added exactly.
\* Far: they lie too far apart for that, and the bits of the smaller one
\* that fall more than 69 bits below the rounding position are kept as one
\* odd bit.
FmaNormal(x, y, z) ==
    LET neg == x.neg # y.neg
        d == x.e + y.e - z.e
        P == MagMul(x.m, y.m)
        Far(bneg, big, sneg, small, e) ==
            IF bneg = sneg
            THEN Round(bneg, MagAdd(MagMulSmall(MagAdd(big, small.q), 2),
                                    <<IF small.lost THEN 1 ELSE 0>>), e - 1)
            ELSE Round(bneg, MagDiff(MagMulSmall(MagDiff(big, small.q), 2),
                                     <<IF small.lost THEN 1 ELSE 0>>), e - 1)
        Near(A, B, D, e) ==
            IF neg = z.neg THEN Round(neg, MagAdd(A, B), e)
            ELSE IF D[10] < 0 THEN Round(z.neg, MagDiff(B, A), e)
            ELSE IF MagBits(D) = 0 THEN SignedZero(FALSE)
            ELSE Round(neg, D, e)
        Sum(A, B, e) == Near(A, B, MagDiff(A, B), e)
    IN IF d > 18
       THEN Far(neg, ShiftLeft(P, 18), z.neg, ShiftRight(z.m, d - 18), z.e + d - 18)
       ELSE IF d < -70
       THEN Far(z.neg, ShiftLeft(z.m, 70), neg, ShiftRight(P, -d - 70), z.e - 70)
       ELSE Sum(ShiftLeft(P, IF d > 0 THEN d ELSE 0), ShiftLeft(z.m, IF d < 0 THEN -d ELSE 0),
                IF d > 0 THEN z.e ELSE z.e + d)

\* The fused multiply-add: x * y + z rounded once.
Fma_body(x, y, z) ==
    IF IsNaN(x) \/ IsNaN(y) \/ IsNaN(z) THEN NaN
    ELSE IF IsInf(x) \/ IsInf(y) \/ IsZero(x) \/ IsZero(y) THEN Add(Mul(x, y), z)
    ELSE IF IsInf(z) THEN z
    ELSE IF IsZero(z) THEN Mul(x, y)
    ELSE FmaNormal(Normal(x), Normal(y), Normal(z))

\* The estimate of the quotient limb of t by d from the two leading limbs
\* of t, lowered while the third shows it too large: the quotient limb or
\* one more.
RECURSIVE DivPick(_, _, _)
DivPick(d, t, q) ==
    LET rest == t[5] * W + t[4] - q * d[4]
    IN IF rest < W /\ q * d[3] > rest * W + t[3] THEN DivPick(d, t, q - 1) ELSE q

\* t - d * q as a normalised vector; its carry (limb 10) is negative when
\* t < d * q.
DivRest(d, t, q) ==
    Norm(<<t[1] - d[1] * q, t[2] - d[2] * q, t[3] - d[3] * q, t[4] - d[4] * q,
           t[5], 0, 0, 0, 0>>)

\* One step of the long division by d (four limbs, the top one at least
\* HalfW): the remainder st.r < d takes the limb x below it and gives the
\* next quotient limb.
DivStep_body(d, x, st) ==
    LET t == <<x>> \o st.r
        q == DivPick(d, t, MinInt(W - 1, (t[5] * W + t[4]) \div d[4]))
        D == DivRest(d, t, q)
    IN IF D[10] >= 0 THEN [r |-> SubSeq(D, 1, 4), q |-> <<q>> \o st.q]
       ELSE [r |-> SubSeq(DivRest(d, t, q - 1), 1, 4), q |-> <<q - 1>> \o st.q]

\* The quotient q (four limbs) and remainder r of (r0 * W^4 + xs) by d,
\* for r0 < d; xs is four limbs.
DivLimbs(d, r0, xs) ==
    DivStep(d, xs[1], DivStep(d, xs[2], DivStep(d, xs[3],
        DivStep(d, xs[4], [r |-> r0, q |-> <<>>]))))

\* x / y for finite nonzero x and y with 53-bit mantissas.
DivNormal(x, y) ==
    LET st == DivLimbs(SubSeq(ShiftLeft(y.m, 3), 1, 4),
                       SubSeq(ShiftLeft(x.m, 2), 1, 4), Zero4)
    IN Round(x.neg # y.neg,
             MagAdd(MagMulSmall(st.q, 2), <<IF st.r = Zero4 THEN 0 ELSE 1>>),
             x.e - y.e - 56)

\* x / y for y other than zero.
Div_body(x, y) ==
    IF IsNaN(x) \/ IsNaN(y) THEN NaN
    ELSE IF IsInf(x) THEN (IF IsInf(y) THEN NaN ELSE Inf(x.neg # y.neg))
    ELSE IF IsInf(y) \/ IsZero(x) THEN SignedZero(x.neg # y.neg)
    ELSE DivNormal(Normal(x), Normal(y))

\* The sign of a - b for four-limb vectors a and b.
MagCmp(a, b) ==
    IF a[4] # b[4] THEN (IF a[4] < b[4] THEN -1 ELSE 1)
    ELSE IF a[3] # b[3] THEN (IF a[3] < b[3] THEN -1 ELSE 1)
    ELSE IF a[2] # b[2] THEN (IF a[2] < b[2] THEN -1 ELSE 1)
    ELSE IF a[1] # b[1] THEN (IF a[1] < b[1] THEN -1 ELSE 1)
    ELSE 0

\* The sign of x, x other than NaN.
Sign(x) == IF IsZero(x) THEN 0 ELSE IF x.neg THEN -1 ELSE 1

\* The sign of |x| - |y| for x and y of one sign, neither zero nor NaN.
CmpAbs(x, y) ==
    IF IsInf(x) \/ IsInf(y)
    THEN (IF IsInf(x) /\ IsInf(y) THEN 0 ELSE IF IsInf(x) THEN 1 ELSE -1)
    ELSE IF x.e # y.e THEN (IF x.e < y.e THEN -1 ELSE 1)
    ELSE MagCmp(x.m, y.m)

\* The sign of x - y for x and y other than NaN.
Cmp(x, y) ==
    IF Sign(x) # Sign(y) THEN (IF Sign(x) < Sign(y) THEN -1 ELSE 1)
    ELSE Sign(x) * CmpAbs(x, y)

Ordered(x, y) == ~IsNaN(x) /\ ~IsNaN(y)
Lt(x, y) == Ordered(x, y) /\ Cmp(x, y) < 0
Le(x, y) == Ordered(x, y) /\ Cmp(x, y) <= 0
Gt(x, y) == Ordered(x, y) /\ Cmp(x, y) > 0
Ge(x, y) == Ordered(x, y) /\ Cmp(x, y) >= 0

\* Limb (a * 2^t \div W^0) % W of a * 2^t, for 0 <= a < 2^31 and any t.
LimbOf(a, t) ==
    IF t >= 14 THEN 0
    ELSE IF t >= 0 THEN ((a % W) * 2^t) % W
    ELSE IF t > -31 THEN (a \div 2^(-t)) % W
    ELSE 0

\* The float of the natural number a, 0 < a < 2^31, of b bits.
WholeOf(neg, a, b) ==
    Dbl(neg, b - 53, <<LimbOf(a, 53 - b), LimbOf(a, 39 - b), LimbOf(a, 25 - b),
                       LimbOf(a, 11 - b)>>)

\* The float of the integer n, |n| < 2^31.
Whole(n) ==
    IF n = 0 THEN SignedZero(FALSE)
    ELSE IF n < 0 THEN WholeOf(TRUE, -n, BitLen(-n))
    ELSE WholeOf(FALSE, n, BitLen(n))

\* The digits of the quotient of r by d, 0 <= r < d < 2^30, after the
\* point: the digit q under way, of which k bits are still to come, then a
\* digit of as many bits as each entry of ks says, and the remainder last.
RECURSIVE DivBits(_, _, _, _, _)
DivBits(r, d, q, k, ks) ==
    IF k > 0 THEN DivBits((2 * r) % d, d, 2 * q + (2 * r) \div d, k - 1, ks)
    ELSE IF ks = <<>> THEN <<q, r>>
    ELSE <<q>> \o DivBits(r, d, 0, Head(ks), Tail(ks))

\* The float nearest to n / 10^6, |n| < 2^30, ties to even: the float of
\* the decimal literal.  The quotient is 2^e times a number in [1, 2), of
\* which q holds the 53 leading bits in four limbs, the bit after them and
\* the remainder.
Micro(n) ==
    LET round(neg, e, q) ==
            LET up == q[5] = 1 /\ (q[6] # 0 \/ q[4] % 2 = 1)
                lo == q[4] + W * q[3] + (IF up THEN 1 ELSE 0)
                hi == q[2] + W * q[1] + lo \div 2^28
            IN IF hi = 2^25 THEN Dbl(neg, e - 51, <<0, 0, 0, 2^10>>)
               ELSE Dbl(neg, e - 52, <<lo % W, (lo % 2^28) \div W, hi % W, hi \div W>>)
        a == IF n < 0 THEN -n ELSE n
        t == BitLen(a) - 20
        d == IF t >= 0 THEN 10^6 * 2^t ELSE 10^6
        r == IF t >= 0 THEN a - d ELSE a * 2^(-t) - d
    IN IF n = 0 THEN SignedZero(FALSE)
       ELSE IF r >= 0 THEN round(n < 0, t, DivBits(r, d, 1, 10, <<14, 14, 14, 1>>))
       ELSE round(n < 0, t - 1, DivBits(2 * r + d, d, 1, 10, <<14, 14, 14, 1>>))

\* The floor of the square root of the natural number n, from the
\* estimate g.
RECURSIVE ISqrtFrom(_, _)
ISqrtFrom(n, g) ==
    LET h == (g + n \div g) \div 2
    IN IF h >= g THEN g ELSE ISqrtFrom(n, h)

\* The floor r of the square root of the limb vector n (2^110 <= n < 2^112)
\* and whether n = r * r, by Newton's iteration from r >= the root.
RECURSIVE SqrtFrom(_, _)
SqrtFrom(n, r) ==
    LET Step(st) ==
            LET Pick(h) == IF MagCmp(h, r) >= 0
                           THEN [r |-> r, exact |-> st.q = r /\ st.r = Zero4]
                           ELSE SqrtFrom(n, h)
            IN Seq2(st, Pick(SubSeq(MagMulSmall(MagAdd(r, st.q), HalfW), 2, 5)))
    IN Step(DivLimbs(r, SubSeq(n, 5, 8), SubSeq(n, 1, 4)))

\* The square root of x >= 0.
Sqrt_body(x) ==
    IF x.cls # "num" \/ IsZero(x) THEN x
    ELSE LET Rooted(y, k, st) ==
                 Round(FALSE,
                       MagAdd(MagMulSmall(st.r, 2), <<IF st.exact THEN 0 ELSE 1>>),
                       (y.e - k) \div 2 - 1)
             Scaled(y, k, n) ==
                 Seq2(n, Rooted(y, k, SqrtFrom(n, <<W - 1, W - 1, W - 1,
                                                    ISqrtFrom(n[8] * W + n[7], W)>>)))
             Even(y, k) == Scaled(y, k, ShiftLeft(y.m, k))
             Of(y) == Seq2(y, Even(y, IF y.e % 2 = 0 THEN 58 ELSE 59))
         IN Of(Normal(x))

----------------------------------------------------------------------------
(* The math library                                                        *)

\* 0.0, 1.0, 2.0 and 0.5.
Zero == SignedZero(FALSE)
One == Dbl(FALSE, -52, <<0, 0, 0, 2^10>>)
Two == Dbl(FALSE, -51, <<0, 0, 0, 2^10>>)
Half == Dbl(FALSE, -53, <<0, 0, 0, 2^10>>)

\* The float 2^k * (1 + a / 2^20), 0 <= a < 2^20: a power of two (a = 0),
\* or a bound that the library tests the leading 32 bits of its argument
\* against, a being the 20 mantissa bits among them.
Bound(a, k) == Dbl(FALSE, k - 52, <<0, 0, (a % 2^10) * 2^4, 2^10 + a \div 2^10>>)

\* The data of exp: N = 128, InvLn2N = N / ln 2, Shift = 0x1.8p52,
\* -ln 2 / N in two parts, the coefficients C2 to C5 of the polynomial of
\* exp(r) - 1 - r, and the table: row i + 1 holds 2^(i / N) as a float,
\* scale, and the part of it the float leaves out, tail.  (The library
\* keeps the bits of scale less i * 2^45, to which it adds ki * 2^45; that
\* multiplies scale by 2^(ki \div N).)
exp_data ==
    [InvLn2N |-> Dbl(FALSE, -45, <<766, 5294, 5238, 1477>>),
     Shift |-> Dbl(FALSE, 0, <<0, 0, 0, 1536>>),
     NegLn2hiN |-> Dbl(TRUE, -60, <<0, 15336, 9263, 1419>>),
     NegLn2loN |-> Dbl(TRUE, -99, <<15162, 12920, 14763, 1853>>),
     poly |-> <<Dbl(FALSE, -54, <<15805, 16383, 16383, 2047>>),
                Dbl(FALSE, -55, <<5180, 5461, 5461, 1365>>),
                Dbl(FALSE, -57, <<11153, 15452, 5468, 1365>>),
                Dbl(FALSE, -59, <<4119, 7827, 4374, 1092>>)>>,
     tab |->
       <<[tail |-> SignedZero(FALSE), scale |-> Dbl(FALSE, -52, <<0, 0, 0, 1024>>)],
         [tail |-> Dbl(FALSE, -106, <<16238, 10786, 13553, 1742>>), scale |-> Dbl(FALSE, -52, <<13109, 10220, 9178, 1029>>)],
         [tail |-> Dbl(TRUE, -108, <<7261, 13155, 313, 1112>>), scale |-> Dbl(FALSE, -52, <<97, 14814, 2467, 1035>>)],
         [tail |-> Dbl(TRUE, -106, <<9937, 541, 10145, 1047>>), scale |-> Dbl(FALSE, -52, <<16261, 8633, 12638, 1040>>)],
         [tail |-> Dbl(FALSE, -107, <<13843, 5535, 9507, 1844>>), scale |-> Dbl(FALSE, -52, <<1396, 3158, 6925, 1046>>)],
         [tail |-> Dbl(TRUE, -107, <<3834, 4070, 10242, 1779>>), scale |-> Dbl(FALSE, -52, <<14046, 10103, 1714, 1052>>)],
         [tail |-> Dbl(FALSE, -109, <<2145, 1947, 13542, 1085>>), scale |-> Dbl(FALSE, -52, <<7112, 8662, 13393, 1057>>)],
         [tail |-> Dbl(FALSE, -106, <<5017, 11471, 15941, 1064>>), scale |-> Dbl(FALSE, -52, <<13187, 11035, 9196, 1063>>)],
         [tail |-> Dbl(FALSE, -106, <<15213, 13837, 10853, 1510>>), scale |-> Dbl(FALSE, -52, <<2319, 13286, 5510, 1069>>)],
         [tail |-> Dbl(FALSE, -107, <<12284, 3063, 4521, 1965>>), scale |-> Dbl(FALSE, -52, <<2039, 11721, 2338, 1075>>)],
         [tail |-> Dbl(FALSE, -112, <<7377, 190, 9175, 1967>>), scale |-> Dbl(FALSE, -52, <<4514, 2895, 16067, 1080>>)],
         [tail |-> Dbl(TRUE, -109, <<11787, 9793, 13128, 1664>>), scale |-> Dbl(FALSE, -52, <<4891, 16379, 13930, 1086>>)],
         [tail |-> Dbl(TRUE, -106, <<15630, 10430, 9506, 1365>>), scale |-> Dbl(FALSE, -52, <<6993, 73, 12317, 1092>>)],
         [tail |-> Dbl(TRUE, -110, <<10837, 12603, 3832, 1056>>), scale |-> Dbl(FALSE, -52, <<12748, 432, 11228, 1098>>)],
         [tail |-> Dbl(TRUE, -106, <<13334, 10071, 4667, 1138>>), scale |-> Dbl(FALSE, -52, <<11744, 15012, 10666, 1104>>)],
         [tail |-> Dbl(FALSE, -107, <<5551, 9585, 15934, 1076>>), scale |-> Dbl(FALSE, -52, <<3665, 8854, 10636, 1110>>)],
         [tail |-> Dbl(TRUE, -107, <<4936, 10902, 12638, 1030>>), scale |-> Dbl(FALSE, -52, <<4475, 12789, 11139, 1116>>)],
         [tail |-> Dbl(TRUE, -107, <<12861, 6008, 16133, 1991>>), scale |-> Dbl(FALSE, -52, <<3562, 8754, 12179, 1122>>)],
         [tail |-> Dbl(FALSE, -107, <<5055, 15437, 6339, 1762>>), scale |-> Dbl(FALSE, -52, <<2933, 11711, 13758, 1128>>)],
         [tail |-> Dbl(TRUE, -106, <<11046, 6215, 6599, 1462>>), scale |-> Dbl(FALSE, -52, <<7380, 4113, 15880, 1134>>)],
         [tail |-> Dbl(FALSE, -106, <<12128, 14568, 3955, 1723>>), scale |-> Dbl(FALSE, -52, <<14762, 1442, 2163, 1141>>)],
         [tail |-> Dbl(TRUE, -107, <<14493, 11800, 14380, 2041>>), scale |-> Dbl(FALSE, -52, <<6429, 3059, 5378, 1147>>)],
         [tail |-> Dbl(FALSE, -107, <<909, 4763, 13332, 1691>>), scale |-> Dbl(FALSE, -52, <<3286, 8586, 9144, 1153>>)],
         [tail |-> Dbl(FALSE, -107, <<1149, 912, 8283, 1054>>), scale |-> Dbl(FALSE, -52, <<7318, 1527, 13465, 1159>>)],
         [tail |-> Dbl(FALSE, -106, <<10388, 3746, 12254, 1443>>), scale |-> Dbl(FALSE, -52, <<8760, 14805, 1958, 1166>>)],
         [tail |-> Dbl(FALSE, -107, <<2173, 2513, 8591, 1495>>), scale |-> Dbl(FALSE, -52, <<9791, 16074, 7396, 1172>>)],
         [tail |-> Dbl(FALSE, -107, <<10226, 8319, 12985, 1041>>), scale |-> Dbl(FALSE, -52, <<15581, 6025, 13398, 1178>>)],
         [tail |-> Dbl(TRUE, -106, <<2142, 15812, 1971, 1454>>), scale |-> Dbl(FALSE, -52, <<9089, 2005, 3582, 1185>>)],
         [tail |-> Dbl(FALSE, -107, <<11057, 13350, 15894, 1213>>), scale |-> Dbl(FALSE, -52, <<7905, 5247, 10719, 1191>>)],
         [tail |-> Dbl(TRUE, -112, <<16378, 10686, 6577, 1864>>), scale |-> Dbl(FALSE, -52, <<6544, 875, 2045, 1198>>)],
         [tail |-> Dbl(FALSE, -107, <<2740, 2096, 14375, 1741>>), scale |-> Dbl(FALSE, -52, <<779, 7056, 10330, 1204>>)],
         [tail |-> Dbl(FALSE, -109, <<2959, 10043, 2344, 1925>>), scale |-> Dbl(FALSE, -52, <<12118, 9464, 2810, 1211>>)],
         [tail |-> Dbl(FALSE, -107, <<11190, 14018, 5972, 1235>>), scale |-> Dbl(FALSE, -52, <<14101, 10438, 12256, 1217>>)],
         [tail |-> Dbl(FALSE, -107, <<13388, 2737, 8222, 1424>>), scale |-> Dbl(FALSE, -52, <<6193, 12595, 5903, 1224>>)],
         [tail |-> Dbl(FALSE, -107, <<14410, 14159, 5013, 2039>>), scale |-> Dbl(FALSE, -52, <<5887, 2448, 139, 1231>>)],
         [tail |-> Dbl(TRUE, -107, <<6916, 11833, 14339, 1448>>), scale |-> Dbl(FALSE, -52, <<8177, 15946, 11349, 1237>>)],
         [tail |-> Dbl(TRUE, -106, <<4200, 12589, 11996, 1170>>), scale |-> Dbl(FALSE, -52, <<10699, 7402, 6771, 1244>>)],
         [tail |-> Dbl(TRUE, -106, <<11662, 11588, 16257, 1601>>), scale |-> Dbl(FALSE, -52, <<6246, 13335, 2790, 1251>>)],
         [tail |-> Dbl(TRUE, -108, <<14034, 14928, 7811, 1140>>), scale |-> Dbl(FALSE, -52, <<8183, 5014, 15795, 1257>>)],
         [tail |-> Dbl(TRUE, -106, <<6933, 3896, 4507, 1606>>), scale |-> Dbl(FALSE, -52, <<10469, 3150, 13020, 1264>>)],
         [tail |-> Dbl(FALSE, -107, <<3181, 7337, 13450, 1383>>), scale |-> Dbl(FALSE, -52, <<13346, 12360, 10852, 1271>>)],
         [tail |-> Dbl(TRUE, -106, <<10634, 10401, 9735, 1220>>), scale |-> Dbl(FALSE, -52, <<28, 4786, 9296, 1278>>)],
         [tail |-> Dbl(TRUE, -110, <<2395, 8286, 14580, 1577>>), scale |-> Dbl(FALSE, -52, <<11818, 2012, 8354, 1285>>)],
         [tail |-> Dbl(TRUE, -108, <<6683, 7462, 2486, 1803>>), scale |-> Dbl(FALSE, -52, <<10391, 9538, 8029, 1292>>)],
         [tail |-> Dbl(FALSE, -111, <<11281, 778, 16086, 1240>>), scale |-> Dbl(FALSE, -52, <<2349, 390, 8326, 1299>>)],
         [tail |-> Dbl(FALSE, -106, <<9455, 11289, 8339, 1433>>), scale |-> Dbl(FALSE, -52, <<87, 13428, 9246, 1306>>)],
         [tail |-> Dbl(FALSE, -109, <<889, 10884, 3613, 1971>>), scale |-> Dbl(FALSE, -52, <<15568, 5892, 10795, 1313>>)],
         [tail |-> Dbl(FALSE, -106, <<4656, 15420, 14563, 1279>>), scale |-> Dbl(FALSE, -52, <<5086, 863, 12975, 1320>>)],
         [tail |-> Dbl(FALSE, -108, <<12208, 11754, 3307, 1444>>), scale |-> Dbl(FALSE, -52, <<10791, 5336, 15789, 1327>>)],
         [tail |-> Dbl(FALSE, -106, <<8311, 11603, 7134, 1223>>), scale |-> Dbl(FALSE, -52, <<7437, 10231, 2857, 1335>>)],
         [tail |-> Dbl(TRUE, -107, <<9102, 454, 832, 2021>>), scale |-> Dbl(FALSE, -52, <<11431, 6772, 6951, 1342>>)],
         [tail |-> Dbl(TRUE, -107, <<9033, 12878, 11469, 1527>>), scale |-> Dbl(FALSE, -52, <<9794, 2877, 11690, 1349>>)],
         [tail |-> Dbl(TRUE, -108, <<14431, 13372, 11371, 1591>>), scale |-> Dbl(FALSE, -52, <<3970, 6773, 693, 1357>>)],
         [tail |-> Dbl(TRUE, -107, <<7414, 12781, 9326, 1412>>), scale |-> Dbl(FALSE, -52, <<4623, 10614, 6732, 1364>>)],
         [tail |-> Dbl(FALSE, -106, <<6030, 9207, 4177, 1229>>), scale |-> Dbl(FALSE, -52, <<10202, 6868, 13427, 1371>>)],
         [tail |-> Dbl(FALSE, -108, <<6917, 15914, 2930, 1766>>), scale |-> Dbl(FALSE, -52, <<2045, 4703, 4397, 1379>>)],
         [tail |-> Dbl(FALSE, -106, <<5129, 2161, 15902, 1048>>), scale |-> Dbl(FALSE, -52, <<5161, 13601, 12413, 1386>>)],
         [tail |-> Dbl(FALSE, -112, <<1770, 103, 14421, 1329>>), scale |-> Dbl(FALSE, -52, <<1719, 10597, 4712, 1394>>)],
         [tail |-> Dbl(FALSE, -106, <<53, 11667, 11874, 1292>>), scale |-> Dbl(FALSE, -52, <<8520, 5812, 14065, 1401>>)],
         [tail |-> Dbl(TRUE, -107, <<13983, 1637, 1190, 1849>>), scale |-> Dbl(FALSE, -52, <<7177, 9691, 7707, 1409>>)],
         [tail |-> Dbl(TRUE, -107, <<3496, 12221, 15443, 1804>>), scale |-> Dbl(FALSE, -52, <<5509, 233, 2027, 1417>>)],
         [tail |-> Dbl(TRUE, -107, <<10670, 9391, 14216, 1300>>), scale |-> Dbl(FALSE, -52, <<800, 4915, 13411, 1424>>)],
         [tail |-> Dbl(TRUE, -106, <<6232, 8537, 11735, 1267>>), scale |-> Dbl(FALSE, -52, <<8741, 2388, 9096, 1432>>)],
         [tail |-> Dbl(FALSE, -110, <<6500, 504, 2728, 1476>>), scale |-> Dbl(FALSE, -52, <<10611, 4402, 5469, 1440>>)],
         [tail |-> Dbl(TRUE, -106, <<8744, 15736, 16123, 1260>>), scale |-> Dbl(FALSE, -52, <<15309, 6652, 2534, 1448>>)],
         [tail |-> Dbl(TRUE, -109, <<14722, 7378, 10968, 1668>>), scale |-> Dbl(FALSE, -52, <<6847, 5167, 295, 1456>>)],
         [tail |-> Dbl(TRUE, -109, <<10734, 8630, 16123, 1241>>), scale |-> Dbl(FALSE, -52, <<6703, 12692, 15139, 1463>>)],
         [tail |-> Dbl(TRUE, -107, <<2129, 4994, 981, 1079>>), scale |-> Dbl(FALSE, -52, <<5252, 9542, 14303, 1471>>)],
         [tail |-> Dbl(TRUE, -108, <<16079, 14696, 13895, 1543>>), scale |-> Dbl(FALSE, -52, <<8052, 9137, 14174, 1479>>)],
         [tail |-> Dbl(TRUE, -107, <<15792, 557, 9388, 1467>>), scale |-> Dbl(FALSE, -52, <<372, 8854, 14756, 1487>>)],
         [tail |-> Dbl(TRUE, -107, <<9866, 14679, 4897, 1414>>), scale |-> Dbl(FALSE, -52, <<10185, 6409, 16053, 1495>>)],
         [tail |-> Dbl(FALSE, -106, <<5331, 14375, 3253, 1063>>), scale |-> Dbl(FALSE, -52, <<7487, 16249, 1684, 1504>>)],
         [tail |-> Dbl(TRUE, -108, <<9501, 9526, 11723, 1740>>), scale |-> Dbl(FALSE, -52, <<391, 4012, 4423, 1512>>)],
         [tail |-> Dbl(FALSE, -106, <<107, 4511, 4053, 1339>>), scale |-> Dbl(FALSE, -52, <<306, 1219, 7888, 1520>>)],
         [tail |-> Dbl(FALSE, -109, <<11349, 12121, 15898, 1402>>), scale |-> Dbl(FALSE, -52, <<3682, 6973, 12083, 1528>>)],
         [tail |-> Dbl(TRUE, -107, <<3906, 16079, 7250, 1576>>), scale |-> Dbl(FALSE, -52, <<6674, 4344, 629, 1537>>)],
         [tail |-> Dbl(TRUE, -106, <<14132, 1260, 7023, 1242>>), scale |-> Dbl(FALSE, -52, <<3603, 9523, 6297, 1545>>)],
         [tail |-> Dbl(TRUE, -107, <<16158, 10343, 10307, 1047>>), scale |-> Dbl(FALSE, -52, <<1965, 6287, 12708, 1553>>)],
         [tail |-> Dbl(TRUE, -106, <<5998, 8649, 1293, 1333>>), scale |-> Dbl(FALSE, -52, <<4845, 11538, 3481, 1562>>)],
         [tail |-> Dbl(FALSE, -106, <<2560, 11322, 5749, 1067>>), scale |-> Dbl(FALSE, -52, <<9881, 9769, 11389, 1570>>)],
         [tail |-> Dbl(FALSE, -107, <<10932, 1987, 13052, 1901>>), scale |-> Dbl(FALSE, -52, <<8411, 2218, 3668, 1579>>)],
         [tail |-> Dbl(TRUE, -109, <<10239, 13079, 9737, 1389>>), scale |-> Dbl(FALSE, -52, <<1164, 6869, 13089, 1587>>)],
         [tail |-> Dbl(FALSE, -108, <<8004, 10189, 10293, 1789>>), scale |-> Dbl(FALSE, -52, <<14134, 9301, 6889, 1596>>)],
         [tail |-> Dbl(TRUE, -106, <<15747, 7288, 4602, 1218>>), scale |-> Dbl(FALSE, -52, <<16326, 11847, 1456, 1605>>)],
         [tail |-> Dbl(TRUE, -110, <<7721, 11696, 7048, 1898>>), scale |-> Dbl(FALSE, -52, <<1509, 823, 13179, 1613>>)],
         [tail |-> Dbl(TRUE, -109, <<14681, 12866, 16279, 1800>>), scale |-> Dbl(FALSE, -52, <<4623, 12065, 9292, 1622>>)],
         [tail |-> Dbl(TRUE, -106, <<14762, 3027, 13362, 1168>>), scale |-> Dbl(FALSE, -52, <<3664, 16249, 6185, 1631>>)],
         [tail |-> Dbl(TRUE, -107, <<3659, 7578, 9933, 1394>>), scale |-> Dbl(FALSE, -52, <<1978, 808, 3863, 1640>>)],
         [tail |-> Dbl(FALSE, -108, <<3623, 11847, 16322, 1131>>), scale |-> Dbl(FALSE, -52, <<12432, 2703, 2328, 1649>>)],
         [tail |-> Dbl(FALSE, -109, <<13243, 1065, 9054, 1908>>), scale |-> Dbl(FALSE, -52, <<8995, 10124, 1585, 1658>>)],
         [tail |-> Dbl(TRUE, -107, <<8803, 2440, 4162, 1521>>), scale |-> Dbl(FALSE, -52, <<9573, 11639, 1639, 1667>>)],
         [tail |-> Dbl(FALSE, -107, <<12757, 3976, 2158, 1735>>), scale |-> Dbl(FALSE, -52, <<11571, 12584, 2494, 1676>>)],
         [tail |-> Dbl(TRUE, -106, <<15125, 3826, 15645, 1134>>), scale |-> Dbl(FALSE, -52, <<9565, 2296, 4155, 1685>>)],
         [tail |-> Dbl(FALSE, -106, <<12754, 13240, 793, 1075>>), scale |-> Dbl(FALSE, -52, <<13144, 3266, 6625, 1694>>)],
         [tail |-> Dbl(FALSE, -107, <<6835, 14797, 6214, 1306>>), scale |-> Dbl(FALSE, -52, <<15807, 5607, 9909, 1703>>)],
         [tail |-> Dbl(TRUE, -107, <<7604, 7738, 15577, 1207>>), scale |-> Dbl(FALSE, -52, <<13178, 16207, 14011, 1712>>)],
         [tail |-> Dbl(FALSE, -107, <<13191, 2860, 10105, 1798>>), scale |-> Dbl(FALSE, -52, <<5037, 9579, 2553, 1722>>)],
         [tail |-> Dbl(TRUE, -106, <<6650, 11079, 14580, 1054>>), scale |-> Dbl(FALSE, -52, <<13926, 9782, 8306, 1731>>)],
         [tail |-> Dbl(TRUE, -110, <<11962, 7026, 15765, 1392>>), scale |-> Dbl(FALSE, -52, <<5627, 8508, 14891, 1740>>)],
         [tail |-> Dbl(TRUE, -106, <<13888, 13979, 227, 1065>>), scale |-> Dbl(FALSE, -52, <<6458, 14229, 5928, 1750>>)],
         [tail |-> Dbl(TRUE, -109, <<4916, 8886, 12099, 1589>>), scale |-> Dbl(FALSE, -52, <<7751, 3053, 14191, 1759>>)],
         [tail |-> Dbl(TRUE, -106, <<2613, 11618, 11814, 1147>>), scale |-> Dbl(FALSE, -52, <<1610, 644, 6915, 1769>>)],
         [tail |-> Dbl(FALSE, -108, <<7629, 10623, 15728, 1343>>), scale |-> Dbl(FALSE, -52, <<466, 303, 489, 1779>>)],
         [tail |-> Dbl(TRUE, -106, <<6316, 10826, 8127, 1135>>), scale |-> Dbl(FALSE, -52, <<7689, 12124, 11301, 1788>>)],
         [tail |-> Dbl(FALSE, -108, <<3251, 700, 10979, 1243>>), scale |-> Dbl(FALSE, -52, <<4764, 13845, 6589, 1798>>)],
         [tail |-> Dbl(FALSE, -107, <<15764, 12927, 13093, 1976>>), scale |-> Dbl(FALSE, -52, <<4218, 16383, 2741, 1808>>)],
         [tail |-> Dbl(FALSE, -107, <<6572, 1061, 2301, 1336>>), scale |-> Dbl(FALSE, -52, <<4427, 14687, 16146, 1817>>)],
         [tail |-> Dbl(FALSE, -109, <<6759, 8504, 6899, 1267>>), scale |-> Dbl(FALSE, -52, <<10165, 4123, 14041, 1827>>)],
         [tail |-> Dbl(FALSE, -109, <<6504, 12872, 12998, 1498>>), scale |-> Dbl(FALSE, -52, <<4201, 13246, 12813, 1837>>)],
         [tail |-> Dbl(TRUE, -107, <<13778, 3890, 8584, 1058>>), scale |-> Dbl(FALSE, -52, <<1018, 5495, 12469, 1847>>)],
         [tail |-> Dbl(TRUE, -107, <<14959, 16383, 5587, 2027>>), scale |-> Dbl(FALSE, -52, <<2428, 10270, 13012, 1857>>)],
         [tail |-> Dbl(TRUE, -106, <<10569, 8662, 6883, 1027>>), scale |-> Dbl(FALSE, -52, <<2546, 8246, 14448, 1867>>)],
         [tail |-> Dbl(FALSE, -108, <<1959, 6388, 14426, 1320>>), scale |-> Dbl(FALSE, -52, <<9351, 13294, 397, 1878>>)],
         [tail |-> Dbl(TRUE, -107, <<8719, 256, 6626, 1188>>), scale |-> Dbl(FALSE, -52, <<920, 6950, 3633, 1888>>)],
         [tail |-> Dbl(FALSE, -107, <<4780, 5894, 9485, 1942>>), scale |-> Dbl(FALSE, -52, <<12933, 3948, 7776, 1898>>)],
         [tail |-> Dbl(FALSE, -107, <<11083, 12293, 9626, 1294>>), scale |-> Dbl(FALSE, -52, <<13408, 3078, 12831, 1908>>)],
         [tail |-> Dbl(TRUE, -107, <<15903, 7888, 4624, 1205>>), scale |-> Dbl(FALSE, -52, <<7007, 3566, 2419, 1919>>)],
         [tail |-> Dbl(TRUE, -107, <<3529, 11548, 11155, 1610>>), scale |-> Dbl(FALSE, -52, <<8489, 5078, 9313, 1929>>)],
         [tail |-> Dbl(FALSE, -108, <<2259, 234, 8262, 1325>>), scale |-> Dbl(FALSE, -52, <<16374, 7724, 750, 1940>>)],
         [tail |-> Dbl(FALSE, -107, <<12913, 1653, 7877, 1265>>), scale |-> Dbl(FALSE, -52, <<3203, 12061, 9503, 1950>>)],
         [tail |-> Dbl(TRUE, -107, <<4592, 16206, 12584, 2045>>), scale |-> Dbl(FALSE, -52, <<4314, 2706, 2810, 1961>>)],
         [tail |-> Dbl(TRUE, -107, <<13437, 2189, 10638, 1899>>), scale |-> Dbl(FALSE, -52, <<10225, 13881, 13442, 1971>>)],
         [tail |-> Dbl(FALSE, -107, <<8200, 1704, 15300, 1968>>), scale |-> Dbl(FALSE, -52, <<6695, 14725, 8638, 1982>>)],
         [tail |-> Dbl(FALSE, -107, <<11058, 3751, 14668, 1290>>), scale |-> Dbl(FALSE, -52, <<14999, 7598, 4787, 1993>>)],
         [tail |-> Dbl(FALSE, -107, <<1518, 1862, 2707, 1689>>), scale |-> Dbl(FALSE, -52, <<1344, 11705, 1893, 2004>>)],
         [tail |-> Dbl(TRUE, -107, <<9197, 4335, 15278, 1933>>), scale |-> Dbl(FALSE, -52, <<15892, 13938, 16346, 2014>>)],
         [tail |-> Dbl(FALSE, -108, <<3485, 13895, 5044, 1506>>), scale |-> Dbl(FALSE, -52, <<4312, 1658, 15384, 2025>>)],
         [tail |-> Dbl(FALSE, -110, <<3209, 1411, 7188, 1217>>), scale |-> Dbl(FALSE, -52, <<12785, 11837, 15394, 2036>>)]>>]

\* The data of log: ln 2 in two parts, the coefficients A0 to A4 of the
\* polynomial of log(1 + r) - r, the coefficients B0 to B10 of the one
\* used near 1, and the table: row i + 1 holds invc, near 1 / c, and logc,
\* near log(c), for the centre c of the i-th of N = 128 intervals of
\* [0x1.6p-1, 0x1.6p0).
log_data ==
    [ln2hi |-> Dbl(FALSE, -53, <<14336, 15336, 9263, 1419>>),
     ln2lo |-> Dbl(FALSE, -97, <<10032, 3869, 13689, 1980>>),
     poly |-> <<Dbl(TRUE, -53, <<1, 0, 0, 1024>>),
                Dbl(FALSE, -54, <<12379, 5444, 5461, 1365>>),
                Dbl(TRUE, -55, <<1424, 16301, 16383, 2047>>),
                Dbl(FALSE, -55, <<273, 5060, 6962, 1638>>),
                Dbl(TRUE, -55, <<2207, 5147, 5982, 1365>>)>>,
     poly1 |-> <<Dbl(TRUE, -53, <<0, 0, 0, 1024>>),
                 Dbl(FALSE, -54, <<5495, 5461, 5461, 1365>>),
                 Dbl(TRUE, -55, <<15819, 16383, 16383, 2047>>),
                 Dbl(FALSE, -55, <<7436, 9815, 6553, 1638>>),
                 Dbl(TRUE, -55, <<1447, 5533, 5461, 1365>>),
                 Dbl(FALSE, -55, <<7728, 3347, 4682, 1170>>),
                 Dbl(TRUE, -56, <<15717, 4360, 16378, 2047>>),
                 Dbl(FALSE, -56, <<5834, 8363, 6210, 1820>>),
                 Dbl(TRUE, -56, <<10495, 3777, 7860, 1638>>),
                 Dbl(FALSE, -56, <<4229, 7871, 6191, 1504>>),
                 Dbl(TRUE, -56, <<1485, 5957, 8503, 1364>>)>>,
     tab |->
       <<[invc |-> Dbl(FALSE, -52, <<7839, 3971, 3852, 1485>>), logc |-> Dbl(TRUE, -54, <<4096, 10138, 2039, 1523>>)],
         [invc |-> Dbl(FALSE, -52, <<10527, 10419, 14214, 1476>>), logc |-> Dbl(TRUE, -54, <<0, 2100, 16108, 1499>>)],
         [invc |-> Dbl(FALSE, -52, <<13728, 9194, 9728, 1468>>), logc |-> Dbl(TRUE, -54, <<8192, 3399, 15921, 1476>>)],
         [invc |-> Dbl(FALSE, -52, <<3197, 15438, 6753, 1460>>), logc |-> Dbl(TRUE, -54, <<14336, 8353, 1459, 1454>>)],
         [invc |-> Dbl(FALSE, -52, <<13521, 12054, 5264, 1452>>), logc |-> Dbl(TRUE, -54, <<14336, 513, 5465, 1431>>)],
         [invc |-> Dbl(FALSE, -52, <<3258, 3260, 5235, 1444>>), logc |-> Dbl(TRUE, -54, <<0, 6240, 11527, 1408>>)],
         [invc |-> Dbl(FALSE, -52, <<547, 8329, 6641, 1436>>), logc |-> Dbl(TRUE, -54, <<4096, 6722, 3240, 1386>>)],
         [invc |-> Dbl(FALSE, -52, <<7897, 9876, 9465, 1428>>), logc |-> Dbl(TRUE, -54, <<4096, 6157, 13365, 1363>>)],
         [invc |-> Dbl(FALSE, -52, <<9412, 10812, 13674, 1420>>), logc |-> Dbl(TRUE, -54, <<0, 3501, 9084, 1341>>)],
         [invc |-> Dbl(FALSE, -52, <<7188, 11895, 2870, 1413>>), logc |-> Dbl(TRUE, -54, <<4096, 13985, 6783, 1319>>)],
         [invc |-> Dbl(FALSE, -52, <<7244, 2841, 9797, 1405>>), logc |-> Dbl(TRUE, -54, <<10240, 9766, 6435, 1297>>)],
         [invc |-> Dbl(FALSE, -52, <<11343, 5700, 1659, 1398>>), logc |-> Dbl(TRUE, -54, <<14336, 9922, 8003, 1275>>)],
         [invc |-> Dbl(FALSE, -52, <<4318, 11630, 11212, 1390>>), logc |-> Dbl(TRUE, -54, <<12288, 4669, 11492, 1253>>)],
         [invc |-> Dbl(FALSE, -52, <<6776, 2916, 5663, 1383>>), logc |-> Dbl(TRUE, -54, <<8192, 7926, 481, 1232>>)],
         [invc |-> Dbl(FALSE, -52, <<5767, 2329, 1377, 1376>>), logc |-> Dbl(TRUE, -54, <<0, 15642, 7726, 1210>>)],
         [invc |-> Dbl(FALSE, -52, <<11219, 15261, 14716, 1368>>), logc |-> Dbl(TRUE, -54, <<8192, 8387, 435, 1189>>)],
         [invc |-> Dbl(FALSE, -52, <<16275, 2717, 12894, 1361>>), logc |-> Dbl(TRUE, -54, <<2048, 13162, 11352, 1167>>)],
         [invc |-> Dbl(FALSE, -52, <<1411, 2073, 12276, 1354>>), logc |-> Dbl(TRUE, -54, <<4096, 9374, 7698, 1146>>)],
         [invc |-> Dbl(FALSE, -52, <<15839, 11978, 12845, 1347>>), logc |-> Dbl(TRUE, -54, <<14336, 11555, 5842, 1125>>)],
         [invc |-> Dbl(FALSE, -52, <<7895, 7379, 14580, 1340>>), logc |-> Dbl(TRUE, -54, <<14336, 10983, 5753, 1104>>)],
         [invc |-> Dbl(FALSE, -52, <<10304, 16248, 1084, 1334>>), logc |-> Dbl(TRUE, -54, <<6144, 5054, 7433, 1083>>)],
         [invc |-> Dbl(FALSE, -52, <<9160, 482, 5100, 1327>>), logc |-> Dbl(TRUE, -54, <<4096, 9068, 10833, 1062>>)],
         [invc |-> Dbl(FALSE, -52, <<9610, 3968, 10236, 1320>>), logc |-> Dbl(TRUE, -54, <<14336, 2446, 15973, 1041>>)],
         [invc |-> Dbl(FALSE, -52, <<1076, 4946, 82, 1314>>), logc |-> Dbl(TRUE, -55, <<12288, 5659, 12836, 2042>>)],
         [invc |-> Dbl(FALSE, -52, <<11531, 11364, 7393, 1307>>), logc |-> Dbl(TRUE, -55, <<12288, 5214, 13479, 2001>>)],
         [invc |-> Dbl(FALSE, -52, <<6228, 3300, 15773, 1300>>), logc |-> Dbl(TRUE, -55, <<12288, 13376, 1091, 1961>>)],
         [invc |-> Dbl(FALSE, -52, <<1114, 4818, 8820, 1294>>), logc |-> Dbl(TRUE, -55, <<12288, 5030, 8404, 1920>>)],
         [invc |-> Dbl(FALSE, -52, <<14587, 1111, 2900, 1288>>), logc |-> Dbl(TRUE, -55, <<12288, 9695, 2594, 1880>>)],
         [invc |-> Dbl(FALSE, -52, <<13489, 10491, 14381, 1281>>), logc |-> Dbl(TRUE, -55, <<4096, 4694, 16, 1840>>)],
         [invc |-> Dbl(FALSE, -52, <<16015, 13663, 10485, 1275>>), logc |-> Dbl(TRUE, -55, <<4096, 6692, 661, 1800>>)],
         [invc |-> Dbl(FALSE, -52, <<3305, 45, 7578, 1269>>), logc |-> Dbl(TRUE, -55, <<4096, 13828, 4472, 1760>>)],
         [invc |-> Dbl(FALSE, -52, <<299, 67, 5644, 1263>>), logc |-> Dbl(TRUE, -55, <<4096, 13135, 11420, 1720>>)],
         [invc |-> Dbl(FALSE, -52, <<6840, 11735, 4674, 1257>>), logc |-> Dbl(TRUE, -55, <<4096, 14410, 5122, 1681>>)],
         [invc |-> Dbl(FALSE, -52, <<4098, 13951, 4652, 1251>>), logc |-> Dbl(TRUE, -55, <<12288, 8311, 1910, 1642>>)],
         [invc |-> Dbl(FALSE, -52, <<14876, 5649, 5564, 1245>>), logc |-> Dbl(TRUE, -55, <<12288, 9504, 1750, 1603>>)],
         [invc |-> Dbl(FALSE, -52, <<14050, 9908, 7396, 1239>>), logc |-> Dbl(TRUE, -55, <<0, 6423, 4618, 1564>>)],
         [invc |-> Dbl(FALSE, -52, <<5184, 8503, 10137, 1233>>), logc |-> Dbl(TRUE, -55, <<12288, 4176, 10491, 1525>>)],
         [invc |-> Dbl(FALSE, -52, <<2852, 15359, 13772, 1227>>), logc |-> Dbl(TRUE, -55, <<12288, 12681, 2947, 1487>>)],
         [invc |-> Dbl(FALSE, -52, <<3401, 5764, 1911, 1222>>), logc |-> Dbl(TRUE, -55, <<8192, 11485, 14761, 1448>>)],
         [invc |-> Dbl(FALSE, -52, <<14736, 7416, 7299, 1216>>), logc |-> Dbl(TRUE, -55, <<8192, 4830, 13077, 1410>>)],
         [invc |-> Dbl(FALSE, -52, <<14401, 11863, 13547, 1210>>), logc |-> Dbl(TRUE, -55, <<12288, 6288, 14295, 1372>>)],
         [invc |-> Dbl(FALSE, -52, <<10705, 2150, 4256, 1205>>), logc |-> Dbl(TRUE, -55, <<12288, 16136, 1976, 1335>>)],
         [invc |-> Dbl(FALSE, -52, <<15658, 8927, 12186, 1199>>), logc |-> Dbl(TRUE, -55, <<0, 1864, 8901, 1297>>)],
         [invc |-> Dbl(FALSE, -52, <<7083, 10288, 4551, 1194>>), logc |-> Dbl(TRUE, -55, <<0, 12812, 2219, 1260>>)],
         [invc |-> Dbl(FALSE, -52, <<13616, 82, 14118, 1188>>), logc |-> Dbl(TRUE, -55, <<0, 11556, 14742, 1222>>)],
         [invc |-> Dbl(FALSE, -52, <<8693, 7518, 8101, 1183>>), logc |-> Dbl(TRUE, -55, <<0, 657, 13641, 1185>>)],
         [invc |-> Dbl(FALSE, -52, <<15295, 11380, 2873, 1178>>), logc |-> Dbl(TRUE, -55, <<8192, 8678, 15263, 1148>>)],
         [invc |-> Dbl(FALSE, -52, <<13757, 3647, 14808, 1172>>), logc |-> Dbl(TRUE, -55, <<8192, 5298, 3202, 1112>>)],
         [invc |-> Dbl(FALSE, -52, <<2107, 11044, 11130, 1167>>), logc |-> Dbl(TRUE, -55, <<8192, 8156, 10229, 1075>>)],
         [invc |-> Dbl(FALSE, -52, <<182, 11941, 8210, 1162>>), logc |-> Dbl(TRUE, -55, <<8192, 10234, 3524, 1039>>)],
         [invc |-> Dbl(FALSE, -52, <<306, 6961, 6041, 1157>>), logc |-> Dbl(TRUE, -56, <<0, 12590, 15323, 2005>>)],
         [invc |-> Dbl(FALSE, -52, <<15515, 14155, 4609, 1152>>), logc |-> Dbl(TRUE, -56, <<0, 6401, 12425, 1933>>)],
         [invc |-> Dbl(FALSE, -52, <<2059, 9525, 3908, 1147>>), logc |-> Dbl(TRUE, -56, <<0, 15333, 14723, 1861>>)],
         [invc |-> Dbl(FALSE, -52, <<9577, 2621, 3925, 1142>>), logc |-> Dbl(TRUE, -56, <<8192, 15202, 5748, 1790>>)],
         [invc |-> Dbl(FALSE, -52, <<15996, 1373, 4657, 1137>>), logc |-> Dbl(TRUE, -56, <<8192, 189, 1938, 1719>>)],
         [invc |-> Dbl(FALSE, -52, <<9961, 4908, 6087, 1132>>), logc |-> Dbl(TRUE, -56, <<0, 7330, 3134, 1648>>)],
         [invc |-> Dbl(FALSE, -52, <<6838, 12464, 8208, 1127>>), logc |-> Dbl(TRUE, -56, <<0, 3531, 9323, 1577>>)],
         [invc |-> Dbl(FALSE, -52, <<12477, 11993, 11015, 1122>>), logc |-> Dbl(TRUE, -56, <<0, 3760, 4123, 1507>>)],
         [invc |-> Dbl(FALSE, -52, <<15542, 6078, 14498, 1117>>), logc |-> Dbl(TRUE, -56, <<0, 5344, 3860, 1437>>)],
         [invc |-> Dbl(FALSE, -52, <<12762, 5424, 2259, 1113>>), logc |-> Dbl(TRUE, -56, <<0, 13854, 8422, 1367>>)],
         [invc |-> Dbl(FALSE, -52, <<8157, 157, 7065, 1108>>), logc |-> Dbl(TRUE, -56, <<8192, 14983, 1485, 1298>>)],
         [invc |-> Dbl(FALSE, -52, <<4684, 4299, 12522, 1103>>), logc |-> Dbl(TRUE, -56, <<8192, 13738, 15764, 1228>>)],
         [invc |-> Dbl(FALSE, -52, <<14810, 2115, 2231, 1099>>), logc |-> Dbl(TRUE, -56, <<8192, 8981, 1951, 1160>>)],
         [invc |-> Dbl(FALSE, -52, <<13617, 9138, 8962, 1094>>), logc |-> Dbl(TRUE, -56, <<8192, 8584, 9321, 1091>>)],
         [invc |-> Dbl(FALSE, -52, <<13487, 10768, 16317, 1089>>), logc |-> Dbl(TRUE, -57, <<0, 11080, 9926, 2046>>)],
         [invc |-> Dbl(FALSE, -52, <<11187, 15673, 7904, 1085>>), logc |-> Dbl(TRUE, -57, <<0, 10717, 10452, 1910>>)],
         [invc |-> Dbl(FALSE, -52, <<8142, 13482, 101, 1081>>), logc |-> Dbl(TRUE, -57, <<0, 4628, 3790, 1775>>)],
         [invc |-> Dbl(FALSE, -52, <<9505, 3250, 9286, 1076>>), logc |-> Dbl(TRUE, -57, <<0, 75, 6292, 1640>>)],
         [invc |-> Dbl(FALSE, -52, <<6170, 13194, 2679, 1072>>), logc |-> Dbl(TRUE, -57, <<0, 3083, 1411, 1506>>)],
         [invc |-> Dbl(FALSE, -52, <<14033, 3864, 13048, 1067>>), logc |-> Dbl(TRUE, -57, <<0, 8026, 5606, 1372>>)],
         [invc |-> Dbl(FALSE, -52, <<4921, 8832, 7609, 1063>>), logc |-> Dbl(TRUE, -57, <<0, 9622, 2212, 1239>>)],
         [invc |-> Dbl(FALSE, -52, <<10207, 15691, 2746, 1059>>), logc |-> Dbl(TRUE, -57, <<0, 4181, 7734, 1106>>)],
         [invc |-> Dbl(FALSE, -52, <<10491, 15672, 14834, 1054>>), logc |-> Dbl(TRUE, -58, <<0, 2990, 11272, 1948>>)],
         [invc |-> Dbl(FALSE, -52, <<3865, 12502, 11096, 1050>>), logc |-> Dbl(TRUE, -58, <<0, 2378, 7957, 1685>>)],
         [invc |-> Dbl(FALSE, -52, <<14636, 6067, 7914, 1046>>), logc |-> Dbl(TRUE, -58, <<0, 15878, 5676, 1423>>)],
         [invc |-> Dbl(FALSE, -52, <<11408, 14148, 5276, 1042>>), logc |-> Dbl(TRUE, -58, <<0, 12968, 4024, 1162>>)],
         [invc |-> Dbl(FALSE, -52, <<11689, 7106, 3180, 1038>>), logc |-> Dbl(TRUE, -59, <<0, 996, 6066, 1804>>)],
         [invc |-> Dbl(FALSE, -52, <<12969, 3556, 1617, 1034>>), logc |-> Dbl(TRUE, -59, <<0, 13992, 4949, 1286>>)],
         [invc |-> Dbl(FALSE, -52, <<13128, 8105, 578, 1030>>), logc |-> Dbl(TRUE, -60, <<0, 2992, 8252, 1540>>)],
         [invc |-> Dbl(FALSE, -52, <<12693, 6226, 64, 1026>>), logc |-> Dbl(TRUE, -61, <<0, 9360, 151, 1025>>)],
         [invc |-> Dbl(FALSE, -53, <<14874, 7323, 511, 2040>>), logc |-> Dbl(FALSE, -61, <<0, 4672, 16184, 2043>>)],
         [invc |-> Dbl(FALSE, -53, <<10868, 2439, 4556, 2024>>), logc |-> Dbl(FALSE, -59, <<0, 5364, 1043, 1527>>)],
         [invc |-> Dbl(FALSE, -53, <<6446, 518, 12555, 2008>>), logc |-> Dbl(FALSE, -58, <<0, 4874, 10812, 1267>>)],
         [invc |-> Dbl(FALSE, -53, <<11725, 13242, 8035, 1993>>), logc |-> Dbl(FALSE, -58, <<0, 4644, 15377, 1767>>)],
         [invc |-> Dbl(FALSE, -53, <<5095, 3652, 7296, 1978>>), logc |-> Dbl(FALSE, -57, <<0, 14404, 3468, 1132>>)],
         [invc |-> Dbl(FALSE, -53, <<12715, 9006, 10247, 1963>>), logc |-> Dbl(FALSE, -57, <<0, 7, 9661, 1378>>)],
         [invc |-> Dbl(FALSE, -53, <<3227, 2676, 426, 1949>>), logc |-> Dbl(FALSE, -57, <<0, 866, 2100, 1623>>)],
         [invc |-> Dbl(FALSE, -53, <<6581, 3114, 10520, 1934>>), logc |-> Dbl(FALSE, -57, <<0, 15710, 13998, 1865>>)],
         [invc |-> Dbl(FALSE, -53, <<6742, 9602, 7680, 1920>>), logc |-> Dbl(FALSE, -56, <<0, 5731, 6542, 1053>>)],
         [invc |-> Dbl(FALSE, -53, <<15256, 5598, 8222, 1906>>), logc |-> Dbl(FALSE, -56, <<8192, 3124, 16222, 1172>>)],
         [invc |-> Dbl(FALSE, -53, <<4355, 11762, 12064, 1892>>), logc |-> Dbl(FALSE, -56, <<0, 11488, 11736, 1291>>)],
         [invc |-> Dbl(FALSE, -53, <<7374, 7149, 2758, 1879>>), logc |-> Dbl(FALSE, -56, <<0, 7519, 9624, 1409>>)],
         [invc |-> Dbl(FALSE, -53, <<7837, 10619, 13002, 1865>>), logc |-> Dbl(FALSE, -56, <<0, 5544, 10083, 1526>>)],
         [invc |-> Dbl(FALSE, -53, <<11469, 14764, 9955, 1852>>), logc |-> Dbl(FALSE, -56, <<8192, 14449, 13364, 1642>>)],
         [invc |-> Dbl(FALSE, -53, <<14594, 2717, 9946, 1839>>), logc |-> Dbl(FALSE, -56, <<8192, 11317, 3195, 1758>>)],
         [invc |-> Dbl(FALSE, -53, <<2157, 13532, 12902, 1826>>), logc |-> Dbl(FALSE, -56, <<8192, 2972, 12595, 1872>>)],
         [invc |-> Dbl(FALSE, -53, <<6148, 13685, 2379, 1814>>), logc |-> Dbl(FALSE, -56, <<8192, 1913, 8983, 1986>>)],
         [invc |-> Dbl(FALSE, -53, <<8076, 3822, 11091, 1801>>), logc |-> Dbl(FALSE, -55, <<0, 11845, 12626, 1049>>)],
         [invc |-> Dbl(FALSE, -53, <<10047, 15283, 6206, 1789>>), logc |-> Dbl(FALSE, -55, <<12288, 2634, 14424, 1105>>)],
         [invc |-> Dbl(FALSE, -53, <<5825, 5998, 4055, 1777>>), logc |-> Dbl(FALSE, -55, <<12288, 14120, 9964, 1161>>)],
         [invc |-> Dbl(FALSE, -53, <<2600, 12825, 4576, 1765>>), logc |-> Dbl(FALSE, -55, <<4096, 6933, 15738, 1216>>)],
         [invc |-> Dbl(FALSE, -53, <<15916, 6076, 7724, 1753>>), logc |-> Dbl(FALSE, -55, <<4096, 12492, 15411, 1271>>)],
         [invc |-> Dbl(FALSE, -53, <<2187, 7974, 13446, 1741>>), logc |-> Dbl(FALSE, -55, <<0, 11754, 9062, 1326>>)],
         [invc |-> Dbl(FALSE, -53, <<12362, 1140, 5298, 1730>>), logc |-> Dbl(FALSE, -55, <<12288, 9031, 13202, 1380>>)],
         [invc |-> Dbl(FALSE, -53, <<12158, 6091, 16008, 1718>>), logc |-> Dbl(FALSE, -55, <<12288, 4195, 11474, 1434>>)],
         [invc |-> Dbl(FALSE, -53, <<15778, 1408, 12755, 1707>>), logc |-> Dbl(FALSE, -55, <<4096, 12698, 3982, 1488>>)],
         [invc |-> Dbl(FALSE, -53, <<6311, 16205, 11875, 1696>>), logc |-> Dbl(FALSE, -55, <<12288, 5227, 7183, 1541>>)],
         [invc |-> Dbl(FALSE, -53, <<13195, 15397, 13326, 1685>>), logc |-> Dbl(FALSE, -55, <<0, 5082, 4757, 1594>>)],
         [invc |-> Dbl(FALSE, -53, <<2855, 685, 681, 1675>>), logc |-> Dbl(FALSE, -55, <<0, 3041, 13152, 1646>>)],
         [invc |-> Dbl(FALSE, -53, <<13009, 3663, 6657, 1664>>), logc |-> Dbl(FALSE, -55, <<0, 12464, 16081, 1698>>)],
         [invc |-> Dbl(FALSE, -53, <<15387, 4972, 14834, 1653>>), logc |-> Dbl(FALSE, -55, <<4096, 12295, 13589, 1750>>)],
         [invc |-> Dbl(FALSE, -53, <<12688, 5918, 8784, 1643>>), logc |-> Dbl(FALSE, -55, <<0, 13043, 5756, 1802>>)],
         [invc |-> Dbl(FALSE, -53, <<3631, 2655, 4847, 1633>>), logc |-> Dbl(FALSE, -55, <<8192, 5409, 9053, 1853>>)],
         [invc |-> Dbl(FALSE, -53, <<2933, 14993, 2990, 1623>>), logc |-> Dbl(FALSE, -55, <<0, 4379, 7123, 1904>>)],
         [invc |-> Dbl(FALSE, -53, <<2104, 14237, 3177, 1613>>), logc |-> Dbl(FALSE, -55, <<8192, 9023, 27, 1955>>)],
         [invc |-> Dbl(FALSE, -53, <<4838, 15773, 5362, 1603>>), logc |-> Dbl(FALSE, -55, <<4096, 94, 4252, 2005>>)],
         [invc |-> Dbl(FALSE, -53, <<6045, 15359, 9512, 1593>>), logc |-> Dbl(FALSE, -54, <<14336, 2174, 9921, 1027>>)],
         [invc |-> Dbl(FALSE, -53, <<124, 16176, 15593, 1583>>), logc |-> Dbl(FALSE, -54, <<4096, 14927, 7040, 1052>>)],
         [invc |-> Dbl(FALSE, -53, <<782, 11003, 7181, 1574>>), logc |-> Dbl(FALSE, -54, <<12288, 14873, 1721, 1077>>)],
         [invc |-> Dbl(FALSE, -53, <<6139, 10380, 634, 1565>>), logc |-> Dbl(FALSE, -54, <<4096, 3375, 10355, 1101>>)],
         [invc |-> Dbl(FALSE, -53, <<6664, 13006, 12298, 1555>>), logc |-> Dbl(FALSE, -54, <<2048, 7309, 214, 1126>>)],
         [invc |-> Dbl(FALSE, -53, <<15957, 8596, 9374, 1546>>), logc |-> Dbl(FALSE, -54, <<0, 818, 4094, 1150>>)],
         [invc |-> Dbl(FALSE, -53, <<608, 6096, 8217, 1537>>), logc |-> Dbl(FALSE, -54, <<10240, 7565, 5629, 1174>>)],
         [invc |-> Dbl(FALSE, -53, <<9001, 3970, 8790, 1528>>), logc |-> Dbl(FALSE, -54, <<10240, 9298, 4864, 1198>>)],
         [invc |-> Dbl(FALSE, -53, <<13741, 8050, 11063, 1519>>), logc |-> Dbl(FALSE, -54, <<8192, 269, 1825, 1222>>)],
         [invc |-> Dbl(FALSE, -53, <<9666, 7772, 15014, 1510>>), logc |-> Dbl(FALSE, -54, <<6144, 14256, 12902, 1245>>)],
         [invc |-> Dbl(FALSE, -53, <<1623, 2140, 4223, 1502>>), logc |-> Dbl(FALSE, -54, <<12288, 11964, 5375, 1269>>)],
         [invc |-> Dbl(FALSE, -53, <<4876, 12120, 11437, 1493>>), logc |-> Dbl(FALSE, -54, <<8192, 3263, 12014, 1292>>)]>>]

\* The data of the logarithm of pow: ln 2 in two parts, the coefficients
\* A0 to A6, and the table: row i + 1 holds invc, logc and the part of
\* log(c) that logc leaves out, logctail, for the i-th of N = 128
\* intervals of [0x1.69555p-1, 0x1.69555p0).
pow_log_data ==
    [ln2hi |-> Dbl(FALSE, -53, <<14336, 15336, 9263, 1419>>),
     ln2lo |-> Dbl(FALSE, -97, <<10032, 3869, 13689, 1980>>),
     poly |-> <<Dbl(TRUE, -53, <<0, 0, 0, 1024>>),
                Dbl(TRUE, -53, <<5472, 5461, 5461, 1365>>),
                Dbl(FALSE, -53, <<6, 0, 0, 1024>>),
                Dbl(FALSE, -53, <<5454, 9573, 6553, 1638>>),
                Dbl(TRUE, -53, <<9338, 5286, 5461, 1365>>),
                Dbl(TRUE, -52, <<1513, 11553, 5561, 1170>>),
                Dbl(FALSE, -52, <<16323, 11416, 696, 1024>>)>>,
     tab |->
       <<[invc |-> Dbl(FALSE, -52, <<0, 0, 0, 1448>>), logc |-> Dbl(TRUE, -54, <<2048, 2791, 2095, 1419>>), logctail |-> Dbl(FALSE, -100, <<5760, 8413, 578, 1709>>)],
         [invc |-> Dbl(FALSE, -52, <<0, 0, 0, 1440>>), logc |-> Dbl(TRUE, -54, <<2048, 15712, 7131, 1396>>), logctail |-> Dbl(TRUE, -98, <<14112, 9091, 4237, 1833>>)],
         [invc |-> Dbl(FALSE, -52, <<0, 0, 0, 1432>>), logc |-> Dbl(TRUE, -54, <<6144, 7445, 10097, 1373>>), logctail |-> Dbl(TRUE, -97, <<4205, 5849, 10829, 1240>>)],
         [invc |-> Dbl(FALSE, -52, <<0, 0, 0, 1424>>), logc |-> Dbl(TRUE, -54, <<14336, 7351, 10968, 1350>>), logctail |-> Dbl(TRUE, -101, <<10197, 15041, 3657, 1441>>)],
         [invc |-> Dbl(FALSE, -52, <<0, 0, 0, 1416>>), logc |-> Dbl(TRUE, -54, <<14336, 5597, 9721, 1327>>), logctail |-> Dbl(TRUE, -99, <<16096, 3236, 13977, 1286>>)],
         [invc |-> Dbl(FALSE, -52, <<0, 0, 0, 1408>>), logc |-> Dbl(TRUE, -54, <<8192, 2161, 6332, 1304>>), logctail |-> Dbl(FALSE, -98, <<1228, 8498, 756, 1270>>)],
         [invc |-> Dbl(FALSE, -52, <<0, 0, 0, 1400>>), logc |-> Dbl(TRUE, -54, <<10240, 6682, 776, 1281>>), logctail |-> Dbl(FALSE, -102, <<2874, 13832, 12094, 1808>>)],
         [invc |-> Dbl(FALSE, -52, <<0, 0, 0, 1392>>), logc |-> Dbl(TRUE, -54, <<2048, 5541, 9413, 1257>>), logctail |-> Dbl(FALSE, -97, <<5216, 6470, 7272, 1068>>)],
         [invc |-> Dbl(FALSE, -52, <<0, 0, 0, 1384>>), logc |-> Dbl(TRUE, -54, <<0, 10850, 15833, 1233>>), logctail |-> Dbl(FALSE, -97, <<146, 4886, 5341, 1366>>)],
         [invc |-> Dbl(FALSE, -52, <<0, 0, 0, 1376>>), logc |-> Dbl(TRUE, -54, <<8192, 11140, 3627, 1210>>), logctail |-> Dbl(FALSE, -97, <<11224, 9948, 12777, 1438>>)],
         [invc |-> Dbl(FALSE, -52, <<0, 0, 0, 1368>>), logc |-> Dbl(TRUE, -54, <<2048, 3962, 5537, 1186>>), logctail |-> Dbl(FALSE, -98, <<12351, 6974, 8523, 1394>>)],
         [invc |-> Dbl(FALSE, -52, <<0, 0, 0, 1368>>), logc |-> Dbl(TRUE, -54, <<2048, 3962, 5537, 1186>>), logctail |-> Dbl(FALSE, -98, <<12351, 6974, 8523, 1394>>)],
         [invc |-> Dbl(FALSE, -52, <<0, 0, 0, 1360>>), logc |-> Dbl(TRUE, -54, <<14336, 12093, 5151, 1162>>), logctail |-> Dbl(TRUE, -98, <<6774, 8527, 8770, 1430>>)],
         [invc |-> Dbl(FALSE, -52, <<0, 0, 0, 1352>>), logc |-> Dbl(TRUE, -54, <<6144, 1446, 2444, 1138>>), logctail |-> Dbl(TRUE, -98, <<5124, 9117, 15302, 2027>>)],
         [invc |-> Dbl(FALSE, -52, <<0, 0, 0, 1344>>), logc |-> Dbl(TRUE, -54, <<10240, 11950, 13770, 1113>>), logctail |-> Dbl(FALSE, -98, <<10480, 3594, 15459, 1991>>)],
         [invc |-> Dbl(FALSE, -52, <<0, 0, 0, 1336>>), logc |-> Dbl(TRUE, -54, <<2048, 9913, 6335, 1089>>), logctail |-> Dbl(TRUE, -97, <<6758, 13333, 3151, 1450>>)],
         [invc |-> Dbl(FALSE, -52, <<0, 0, 0, 1328>>), logc |-> Dbl(TRUE, -54, <<4096, 2510, 12878, 1064>>), logctail |-> Dbl(TRUE, -99, <<782, 15312, 16103, 1818>>)],
         [invc |-> Dbl(FALSE, -52, <<0, 0, 0, 1320>>), logc |-> Dbl(TRUE, -54, <<4096, 4819, 601, 1040>>), logctail |-> Dbl(TRUE, -100, <<11647, 15312, 11145, 1037>>)],
         [invc |-> Dbl(FALSE, -52, <<0, 0, 0, 1320>>), logc |-> Dbl(TRUE, -54, <<4096, 4819, 601, 1040>>), logctail |-> Dbl(TRUE, -100, <<11647, 15312, 11145, 1037>>)],
         [invc |-> Dbl(FALSE, -52, <<0, 0, 0, 1312>>), logc |-> Dbl(TRUE, -55, <<0, 13689, 4486, 2030>>), logctail |-> Dbl(FALSE, -99, <<15495, 11876, 12970, 1877>>)],
         [invc |-> Dbl(FALSE, -52, <<0, 0, 0, 1304>>), logc |-> Dbl(TRUE, -55, <<8192, 12145, 2780, 1980>>), logctail |-> Dbl(FALSE, -97, <<12068, 12826, 11129, 1737>>)],
         [invc |-> Dbl(FALSE, -52, <<0, 0, 0, 1296>>), logc |-> Dbl(TRUE, -55, <<12288, 14507, 12406, 1929>>), logctail |-> Dbl(TRUE, -98, <<16144, 4351, 13557, 1483>>)],
         [invc |-> Dbl(FALSE, -52, <<0, 0, 0, 1288>>), logc |-> Dbl(TRUE, -55, <<0, 11583, 534, 1879>>), logctail |-> Dbl(FALSE, -97, <<10267, 12073, 10523, 1134>>)],
         [invc |-> Dbl(FALSE, -52, <<0, 0, 0, 1280>>), logc |-> Dbl(TRUE, -55, <<8192, 7786, 16252, 1827>>), logctail |-> Dbl(FALSE, -97, <<1076, 8830, 5366, 1502>>)],
         [invc |-> Dbl(FALSE, -52, <<0, 0, 0, 1280>>), logc |-> Dbl(TRUE, -55, <<8192, 7786, 16252, 1827>>), logctail |-> Dbl(FALSE, -97, <<1076, 8830, 5366, 1502>>)],
         [invc |-> Dbl(FALSE, -52, <<0, 0, 0, 1272>>), logc |-> Dbl(TRUE, -55, <<4096, 4278, 10343, 1776>>), logctail |-> Dbl(FALSE, -98, <<14223, 1582, 11011, 1619>>)],
         [invc |-> Dbl(FALSE, -52, <<0, 0, 0, 1264>>), logc |-> Dbl(TRUE, -55, <<0, 14851, 15508, 1724>>), logctail |-> Dbl(FALSE, -104, <<4198, 16182, 9779, 1683>>)],
         [invc |-> Dbl(FALSE, -52, <<0, 0, 0, 1256>>), logc |-> Dbl(TRUE, -55, <<12288, 16266, 15297, 1672>>), logctail |-> Dbl(TRUE, -97, <<490, 12571, 1613, 1379>>)],
         [invc |-> Dbl(FALSE, -52, <<0, 0, 0, 1256>>), logc |-> Dbl(TRUE, -55, <<12288, 16266, 15297, 1672>>), logctail |-> Dbl(TRUE, -97, <<490, 12571, 1613, 1379>>)],
         [invc |-> Dbl(FALSE, -52, <<0, 0, 0, 1248>>), logc |-> Dbl(TRUE, -55, <<4096, 13265, 9641, 1620>>), logctail |-> Dbl(TRUE, -97, <<5347, 4871, 7568, 1716>>)],
         [invc |-> Dbl(FALSE, -52, <<0, 0, 0, 1240>>), logc |-> Dbl(TRUE, -55, <<4096, 5251, 14854, 1567>>), logctail |-> Dbl(FALSE, -97, <<14857, 16239, 7159, 1775>>)],
         [invc |-> Dbl(FALSE, -52, <<0, 0, 0, 1232>>), logc |-> Dbl(TRUE, -55, <<8192, 2115, 14480, 1514>>), logctail |-> Dbl(FALSE, -97, <<2648, 2381, 14599, 1782>>)],
         [invc |-> Dbl(FALSE, -52, <<0, 0, 0, 1232>>), logc |-> Dbl(TRUE, -55, <<8192, 2115, 14480, 1514>>), logctail |-> Dbl(FALSE, -97, <<2648, 2381, 14599, 1782>>)],
         [invc |-> Dbl(FALSE, -52, <<0, 0, 0, 1224>>), logc |-> Dbl(TRUE, -55, <<4096, 7271, 8446, 1461>>), logctail |-> Dbl(TRUE, -98, <<8806, 3787, 1706, 1081>>)],
         [invc |-> Dbl(FALSE, -52, <<0, 0, 0, 1216>>), logc |-> Dbl(TRUE, -55, <<4096, 670, 13063, 1407>>), logctail |-> Dbl(TRUE, -98, <<4153, 15425, 9273, 1959>>)],
         [invc |-> Dbl(FALSE, -52, <<0, 0, 0, 1216>>), logc |-> Dbl(TRUE, -55, <<4096, 670, 13063, 1407>>), logctail |-> Dbl(TRUE, -98, <<4153, 15425, 9273, 1959>>)],
         [invc |-> Dbl(FALSE, -52, <<0, 0, 0, 1208>>), logc |-> Dbl(TRUE, -55, <<12288, 3718, 11870, 1353>>), logctail |-> Dbl(TRUE, -97, <<7055, 29, 10425, 1079>>)],
         [invc |-> Dbl(FALSE, -52, <<0, 0, 0, 1200>>), logc |-> Dbl(TRUE, -55, <<0, 13102, 4790, 1299>>), logctail |-> Dbl(FALSE, -98, <<14396, 1237, 3094, 1475>>)],
         [invc |-> Dbl(FALSE, -52, <<0, 0, 0, 1200>>), logc |-> Dbl(TRUE, -55, <<0, 13102, 4790, 1299>>), logctail |-> Dbl(FALSE, -98, <<14396, 1237, 3094, 1475>>)],
         [invc |-> Dbl(FALSE, -52, <<0, 0, 0, 1192>>), logc |-> Dbl(TRUE, -55, <<4096, 122, 8130, 1244>>), logctail |-> Dbl(FALSE, -100, <<5178, 13469, 2148, 1118>>)],
         [invc |-> Dbl(FALSE, -52, <<0, 0, 0, 1184>>), logc |-> Dbl(TRUE, -55, <<12288, 8319, 5423, 1189>>), logctail |-> Dbl(TRUE, -97, <<1032, 7623, 4865, 1315>>)],
         [invc |-> Dbl(FALSE, -52, <<0, 0, 0, 1176>>), logc |-> Dbl(TRUE, -55, <<8192, 5309, 12973, 1133>>), logctail |-> Dbl(TRUE, -97, <<9110, 8262, 2625, 1952>>)],
         [invc |-> Dbl(FALSE, -52, <<0, 0, 0, 1176>>), logc |-> Dbl(TRUE, -55, <<8192, 5309, 12973, 1133>>), logctail |-> Dbl(TRUE, -97, <<9110, 8262, 2625, 1952>>)],
         [invc |-> Dbl(FALSE, -52, <<0, 0, 0, 1168>>), logc |-> Dbl(TRUE, -55, <<4096, 13122, 14311, 1077>>), logctail |-> Dbl(FALSE, -99, <<7156, 9121, 6504, 1690>>)],
         [invc |-> Dbl(FALSE, -52, <<0, 0, 0, 1168>>), logc |-> Dbl(TRUE, -55, <<4096, 13122, 14311, 1077>>), logctail |-> Dbl(FALSE, -99, <<7156, 9121, 6504, 1690>>)],
         [invc |-> Dbl(FALSE, -52, <<0, 0, 0, 1160>>), logc |-> Dbl(TRUE, -56, <<8192, 1903, 2323, 2043>>), logctail |-> Dbl(TRUE, -97, <<13298, 12940, 5445, 1373>>)],
         [invc |-> Dbl(FALSE, -52, <<0, 0, 0, 1152>>), logc |-> Dbl(TRUE, -56, <<0, 14508, 12406, 1929>>), logctail |-> Dbl(FALSE, -97, <<60, 11200, 706, 1677>>)],
         [invc |-> Dbl(FALSE, -52, <<0, 0, 0, 1152>>), logc |-> Dbl(TRUE, -56, <<0, 14508, 12406, 1929>>), logctail |-> Dbl(FALSE, -97, <<60, 11200, 706, 1677>>)],
         [invc |-> Dbl(FALSE, -52, <<0, 0, 0, 1144>>), logc |-> Dbl(TRUE, -56, <<0, 15727, 9544, 1815>>), logctail |-> Dbl(TRUE, -98, <<15878, 8574, 1397, 1859>>)],
         [invc |-> Dbl(FALSE, -52, <<0, 0, 0, 1136>>), logc |-> Dbl(TRUE, -56, <<8192, 10539, 9939, 1700>>), logctail |-> Dbl(FALSE, -97, <<10952, 8558, 4958, 1358>>)],
         [invc |-> Dbl(FALSE, -52, <<0, 0, 0, 1136>>), logc |-> Dbl(TRUE, -56, <<8192, 10539, 9939, 1700>>), logctail |-> Dbl(FALSE, -97, <<10952, 8558, 4958, 1358>>)],
         [invc |-> Dbl(FALSE, -52, <<0, 0, 0, 1128>>), logc |-> Dbl(TRUE, -56, <<8192, 6342, 13405, 1584>>), logctail |-> Dbl(FALSE, -98, <<5736, 13501, 660, 1247>>)],
         [invc |-> Dbl(FALSE, -52, <<0, 0, 0, 1128>>), logc |-> Dbl(TRUE, -56, <<8192, 6342, 13405, 1584>>), logctail |-> Dbl(FALSE, -98, <<5736, 13501, 660, 1247>>)],
         [invc |-> Dbl(FALSE, -52, <<0, 0, 0, 1120>>), logc |-> Dbl(TRUE, -56, <<8192, 11157, 3368, 1468>>), logctail |-> Dbl(TRUE, -97, <<13274, 9421, 13180, 1445>>)],
         [invc |-> Dbl(FALSE, -52, <<0, 0, 0, 1112>>), logc |-> Dbl(TRUE, -56, <<8192, 15384, 12403, 1350>>), logctail |-> Dbl(FALSE, -98, <<7767, 1817, 9654, 1984>>)],
         [invc |-> Dbl(FALSE, -52, <<0, 0, 0, 1112>>), logc |-> Dbl(TRUE, -56, <<8192, 15384, 12403, 1350>>), logctail |-> Dbl(FALSE, -98, <<7767, 1817, 9654, 1984>>)],
         [invc |-> Dbl(FALSE, -52, <<0, 0, 0, 1104>>), logc |-> Dbl(TRUE, -56, <<8192, 6255, 7545, 1232>>), logctail |-> Dbl(FALSE, -97, <<5087, 13284, 11692, 1815>>)],
         [invc |-> Dbl(FALSE, -52, <<0, 0, 0, 1104>>), logc |-> Dbl(TRUE, -56, <<8192, 6255, 7545, 1232>>), logctail |-> Dbl(FALSE, -97, <<5087, 13284, 11692, 1815>>)],
         [invc |-> Dbl(FALSE, -52, <<0, 0, 0, 1096>>), logc |-> Dbl(TRUE, -56, <<0, 14990, 4974, 1113>>), logctail |-> Dbl(FALSE, -98, <<8969, 6718, 1511, 1311>>)],
         [invc |-> Dbl(FALSE, -52, <<0, 0, 0, 1088>>), logc |-> Dbl(TRUE, -57, <<0, 70, 8972, 1986>>), logctail |-> Dbl(FALSE, -97, <<3729, 3290, 6632, 1878>>)],
         [invc |-> Dbl(FALSE, -52, <<0, 0, 0, 1088>>), logc |-> Dbl(TRUE, -57, <<0, 70, 8972, 1986>>), logctail |-> Dbl(FALSE, -97, <<3729, 3290, 6632, 1878>>)],
         [invc |-> Dbl(FALSE, -52, <<0, 0, 0, 1080>>), logc |-> Dbl(TRUE, -57, <<0, 1126, 11735, 1744>>), logctail |-> Dbl(FALSE, -98, <<12364, 5977, 10158, 1824>>)],
         [invc |-> Dbl(FALSE, -52, <<0, 0, 0, 1080>>), logc |-> Dbl(TRUE, -57, <<0, 1126, 11735, 1744>>), logctail |-> Dbl(FALSE, -98, <<12364, 5977, 10158, 1824>>)],
         [invc |-> Dbl(FALSE, -52, <<0, 0, 0, 1072>>), logc |-> Dbl(TRUE, -57, <<0, 6347, 1423, 1501>>), logctail |-> Dbl(TRUE, -97, <<8686, 5066, 1123, 1855>>)],
         [invc |-> Dbl(FALSE, -52, <<0, 0, 0, 1072>>), logc |-> Dbl(TRUE, -57, <<0, 6347, 1423, 1501>>), logctail |-> Dbl(TRUE, -97, <<8686, 5066, 1123, 1855>>)],
         [invc |-> Dbl(FALSE, -52, <<0, 0, 0, 1064>>), logc |-> Dbl(TRUE, -57, <<0, 10235, 10363, 1255>>), logctail |-> Dbl(FALSE, -100, <<16042, 5275, 11135, 1344>>)],
         [invc |-> Dbl(FALSE, -52, <<0, 0, 0, 1064>>), logc |-> Dbl(TRUE, -57, <<0, 10235, 10363, 1255>>), logctail |-> Dbl(FALSE, -100, <<16042, 5275, 11135, 1344>>)],
         [invc |-> Dbl(FALSE, -52, <<0, 0, 0, 1056>>), logc |-> Dbl(TRUE, -58, <<0, 14816, 10672, 2016>>), logctail |-> Dbl(TRUE, -97, <<2532, 12792, 615, 1632>>)],
         [invc |-> Dbl(FALSE, -52, <<0, 0, 0, 1056>>), logc |-> Dbl(TRUE, -58, <<0, 14816, 10672, 2016>>), logctail |-> Dbl(TRUE, -97, <<2532, 12792, 615, 1632>>)],
         [invc |-> Dbl(FALSE, -52, <<0, 0, 0, 1048>>), logc |-> Dbl(TRUE, -58, <<0, 8022, 4528, 1518>>), logctail |-> Dbl(TRUE, -97, <<9785, 4074, 5449, 1571>>)],
         [invc |-> Dbl(FALSE, -52, <<0, 0, 0, 1040>>), logc |-> Dbl(TRUE, -59, <<0, 1008, 2699, 2032>>), logctail |-> Dbl(TRUE, -102, <<9884, 6990, 10191, 1991>>)],
         [invc |-> Dbl(FALSE, -52, <<0, 0, 0, 1040>>), logc |-> Dbl(TRUE, -59, <<0, 1008, 2699, 2032>>), logctail |-> Dbl(TRUE, -102, <<9884, 6990, 10191, 1991>>)],
         [invc |-> Dbl(FALSE, -52, <<0, 0, 0, 1032>>), logc |-> Dbl(TRUE, -60, <<0, 11328, 678, 2040>>), logctail |-> Dbl(TRUE, -98, <<228, 14185, 9200, 1656>>)],
         [invc |-> Dbl(FALSE, -52, <<0, 0, 0, 1032>>), logc |-> Dbl(TRUE, -60, <<0, 11328, 678, 2040>>), logctail |-> Dbl(TRUE, -98, <<228, 14185, 9200, 1656>>)],
         [invc |-> Dbl(FALSE, -52, <<0, 0, 0, 1024>>), logc |-> SignedZero(FALSE), logctail |-> SignedZero(FALSE)],
         [invc |-> Dbl(FALSE, -52, <<0, 0, 0, 1024>>), logc |-> SignedZero(FALSE), logctail |-> SignedZero(FALSE)],
         [invc |-> Dbl(FALSE, -53, <<0, 0, 0, 2032>>), logc |-> Dbl(FALSE, -59, <<0, 5668, 343, 1028>>), logctail |-> Dbl(TRUE, -98, <<11240, 9844, 14009, 1073>>)],
         [invc |-> Dbl(FALSE, -53, <<0, 0, 0, 2016>>), logc |-> Dbl(FALSE, -58, <<0, 8782, 1381, 1032>>), logctail |-> Dbl(TRUE, -97, <<14290, 7051, 1456, 1271>>)],
         [invc |-> Dbl(FALSE, -53, <<0, 0, 0, 2000>>), logc |-> Dbl(FALSE, -58, <<0, 8996, 4690, 1554>>), logctail |-> Dbl(TRUE, -97, <<3124, 2408, 2979, 1704>>)],
         [invc |-> Dbl(FALSE, -53, <<0, 0, 0, 1984>>), logc |-> Dbl(FALSE, -57, <<0, 10141, 5592, 1040>>), logctail |-> Dbl(FALSE, -99, <<5971, 13255, 7173, 1092>>)],
         [invc |-> Dbl(FALSE, -53, <<0, 0, 0, 1968>>), logc |-> Dbl(FALSE, -57, <<0, 4280, 10989, 1305>>), logctail |-> Dbl(TRUE, -97, <<15656, 5879, 10039, 1797>>)],
         [invc |-> Dbl(FALSE, -53, <<0, 0, 0, 1952>>), logc |-> Dbl(FALSE, -57, <<0, 4735, 2721, 1573>>), logctail |-> Dbl(TRUE, -98, <<9853, 360, 6493, 1630>>)],
         [invc |-> Dbl(FALSE, -53, <<0, 0, 0, 1936>>), logc |-> Dbl(FALSE, -57, <<0, 14199, 14140, 1842>>), logctail |-> Dbl(TRUE, -98, <<10247, 8032, 3876, 1690>>)],
         [invc |-> Dbl(FALSE, -53, <<0, 0, 0, 1928>>), logc |-> Dbl(FALSE, -57, <<0, 27, 8988, 1978>>), logctail |-> Dbl(TRUE, -99, <<15227, 16164, 5092, 1924>>)],
         [invc |-> Dbl(FALSE, -53, <<0, 0, 0, 1912>>), logc |-> Dbl(FALSE, -56, <<8192, 1305, 13245, 1125>>), logctail |-> Dbl(TRUE, -97, <<7835, 6198, 9685, 1356>>)],
         [invc |-> Dbl(FALSE, -53, <<0, 0, 0, 1896>>), logc |-> Dbl(FALSE, -56, <<8192, 8007, 8026, 1263>>), logctail |-> Dbl(FALSE, -97, <<3799, 5997, 1514, 1842>>)],
         [invc |-> Dbl(FALSE, -53, <<0, 0, 0, 1880>>), logc |-> Dbl(FALSE, -56, <<8192, 13918, 5540, 1402>>), logctail |-> Dbl(TRUE, -97, <<7454, 12660, 4195, 1818>>)],
         [invc |-> Dbl(FALSE, -53, <<0, 0, 0, 1872>>), logc |-> Dbl(FALSE, -56, <<0, 11179, 3376, 1472>>), logctail |-> Dbl(FALSE, -101, <<11570, 9847, 10458, 1799>>)],
         [invc |-> Dbl(FALSE, -53, <<0, 0, 0, 1856>>), logc |-> Dbl(FALSE, -56, <<0, 13669, 13797, 1612>>), logctail |-> Dbl(FALSE, -97, <<2010, 10997, 5571, 1220>>)],
         [invc |-> Dbl(FALSE, -53, <<0, 0, 0, 1840>>), logc |-> Dbl(FALSE, -56, <<8192, 14005, 11400, 1754>>), logctail |-> Dbl(TRUE, -98, <<10469, 12253, 2050, 1252>>)],
         [invc |-> Dbl(FALSE, -53, <<0, 0, 0, 1832>>), logc |-> Dbl(FALSE, -56, <<0, 1777, 1408, 1826>>), logctail |-> Dbl(FALSE, -97, <<11475, 6506, 11548, 1425>>)],
         [invc |-> Dbl(FALSE, -53, <<0, 0, 0, 1816>>), logc |-> Dbl(FALSE, -56, <<8192, 3112, 13208, 1969>>), logctail |-> Dbl(TRUE, -97, <<1504, 16281, 1674, 1904>>)],
         [invc |-> Dbl(FALSE, -53, <<0, 0, 0, 1808>>), logc |-> Dbl(FALSE, -56, <<8192, 10095, 2323, 2042>>), logctail |-> Dbl(TRUE, -97, <<2813, 16004, 3428, 1357>>)],
         [invc |-> Dbl(FALSE, -53, <<0, 0, 0, 1792>>), logc |-> Dbl(FALSE, -55, <<8192, 2207, 14568, 1093>>), logctail |-> Dbl(FALSE, -97, <<2034, 14516, 14220, 1147>>)],
         [invc |-> Dbl(FALSE, -53, <<0, 0, 0, 1784>>), logc |-> Dbl(FALSE, -55, <<12288, 14479, 8887, 1130>>), logctail |-> Dbl(FALSE, -97, <<6452, 4322, 14564, 1833>>)],
         [invc |-> Dbl(FALSE, -53, <<0, 0, 0, 1768>>), logc |-> Dbl(FALSE, -55, <<0, 12826, 5648, 1204>>), logctail |-> Dbl(FALSE, -99, <<13473, 11782, 5836, 1255>>)],
         [invc |-> Dbl(FALSE, -53, <<0, 0, 0, 1760>>), logc |-> Dbl(FALSE, -55, <<4096, 86, 8139, 1241>>), logctail |-> Dbl(FALSE, -103, <<12937, 3373, 14978, 1419>>)],
         [invc |-> Dbl(FALSE, -53, <<0, 0, 0, 1744>>), logc |-> Dbl(FALSE, -55, <<12288, 3278, 5080, 1316>>), logctail |-> Dbl(FALSE, -97, <<13944, 5110, 14229, 1376>>)],
         [invc |-> Dbl(FALSE, -53, <<0, 0, 0, 1736>>), logc |-> Dbl(FALSE, -55, <<12288, 4742, 15966, 1353>>), logctail |-> Dbl(FALSE, -97, <<15815, 5541, 16014, 1420>>)],
         [invc |-> Dbl(FALSE, -53, <<0, 0, 0, 1720>>), logc |-> Dbl(FALSE, -55, <<4096, 14896, 13547, 1429>>), logctail |-> Dbl(FALSE, -98, <<11896, 12528, 14514, 1651>>)],
         [invc |-> Dbl(FALSE, -53, <<0, 0, 0, 1712>>), logc |-> Dbl(FALSE, -55, <<12288, 11733, 296, 1468>>), logctail |-> Dbl(TRUE, -97, <<8673, 5744, 6366, 1348>>)],
         [invc |-> Dbl(FALSE, -53, <<0, 0, 0, 1704>>), logc |-> Dbl(FALSE, -55, <<4096, 5393, 6360, 1506>>), logctail |-> Dbl(TRUE, -98, <<773, 581, 8455, 1817>>)],
         [invc |-> Dbl(FALSE, -53, <<0, 0, 0, 1688>>), logc |-> Dbl(FALSE, -55, <<0, 11492, 11006, 1583>>), logctail |-> Dbl(TRUE, -99, <<11473, 11172, 5450, 1487>>)],
         [invc |-> Dbl(FALSE, -53, <<0, 0, 0, 1680>>), logc |-> Dbl(FALSE, -55, <<0, 13276, 9645, 1622>>), logctail |-> Dbl(FALSE, -99, <<16239, 8835, 8837, 1532>>)],
         [invc |-> Dbl(FALSE, -53, <<0, 0, 0, 1664>>), logc |-> Dbl(FALSE, -55, <<8192, 12843, 16083, 1700>>), logctail |-> Dbl(TRUE, -97, <<8553, 344, 9269, 1564>>)],
         [invc |-> Dbl(FALSE, -53, <<0, 0, 0, 1656>>), logc |-> Dbl(FALSE, -55, <<4096, 7535, 7557, 1740>>), logctail |-> Dbl(TRUE, -99, <<8618, 15027, 6356, 1805>>)],
         [invc |-> Dbl(FALSE, -53, <<0, 0, 0, 1648>>), logc |-> Dbl(FALSE, -55, <<8192, 8431, 2163, 1780>>), logctail |-> Dbl(TRUE, -97, <<4790, 9552, 15429, 1874>>)],
         [invc |-> Dbl(FALSE, -53, <<0, 0, 0, 1640>>), logc |-> Dbl(FALSE, -55, <<4096, 7104, 16316, 1819>>), logctail |-> Dbl(TRUE, -100, <<11218, 5720, 1836, 1147>>)],
         [invc |-> Dbl(FALSE, -53, <<0, 0, 0, 1624>>), logc |-> Dbl(FALSE, -55, <<4096, 850, 5083, 1900>>), logctail |-> Dbl(TRUE, -97, <<12341, 7254, 12975, 1727>>)],
         [invc |-> Dbl(FALSE, -53, <<0, 0, 0, 1616>>), logc |-> Dbl(FALSE, -55, <<4096, 16284, 12527, 1940>>), logctail |-> Dbl(FALSE, -103, <<13360, 263, 8822, 1156>>)],
         [invc |-> Dbl(FALSE, -53, <<0, 0, 0, 1608>>), logc |-> Dbl(FALSE, -55, <<0, 4980, 6878, 1981>>), logctail |-> Dbl(TRUE, -103, <<3601, 5870, 4438, 1672>>)],
         [invc |-> Dbl(FALSE, -53, <<0, 0, 0, 1600>>), logc |-> Dbl(FALSE, -55, <<12288, 13006, 4550, 2022>>), logctail |-> Dbl(FALSE, -98, <<7984, 10291, 16076, 1778>>)],
         [invc |-> Dbl(FALSE, -53, <<0, 0, 0, 1584>>), logc |-> Dbl(FALSE, -54, <<6144, 309, 4998, 1052>>), logctail |-> Dbl(FALSE, -100, <<3729, 7093, 3505, 1575>>)],
         [invc |-> Dbl(FALSE, -53, <<0, 0, 0, 1576>>), logc |-> Dbl(FALSE, -54, <<8192, 7557, 726, 1073>>), logctail |-> Dbl(FALSE, -97, <<10985, 6387, 2225, 1478>>)],
         [invc |-> Dbl(FALSE, -53, <<0, 0, 0, 1568>>), logc |-> Dbl(FALSE, -54, <<10240, 2207, 14568, 1093>>), logctail |-> Dbl(TRUE, -97, <<12316, 3735, 4326, 1800>>)],
         [invc |-> Dbl(FALSE, -53, <<0, 0, 0, 1560>>), logc |-> Dbl(FALSE, -54, <<14336, 11955, 13772, 1114>>), logctail |-> Dbl(FALSE, -97, <<5761, 7828, 11487, 1766>>)],
         [invc |-> Dbl(FALSE, -53, <<0, 0, 0, 1552>>), logc |-> Dbl(FALSE, -54, <<10240, 3433, 14742, 1135>>), logctail |-> Dbl(FALSE, -97, <<15799, 1310, 11989, 1833>>)],
         [invc |-> Dbl(FALSE, -53, <<0, 0, 0, 1544>>), logc |-> Dbl(FALSE, -54, <<14336, 13370, 1110, 1157>>), logctail |-> Dbl(FALSE, -99, <<15082, 10522, 15851, 1697>>)],
         [invc |-> Dbl(FALSE, -53, <<0, 0, 0, 1528>>), logc |-> Dbl(FALSE, -54, <<4096, 13170, 12039, 1199>>), logctail |-> Dbl(FALSE, -97, <<1268, 10560, 4004, 1703>>)],
         [invc |-> Dbl(FALSE, -53, <<0, 0, 0, 1520>>), logc |-> Dbl(FALSE, -54, <<8192, 1869, 3870, 1221>>), logctail |-> Dbl(TRUE, -97, <<15544, 3204, 10157, 1592>>)],
         [invc |-> Dbl(FALSE, -53, <<0, 0, 0, 1512>>), logc |-> Dbl(FALSE, -54, <<4096, 6904, 13943, 1242>>), logctail |-> Dbl(FALSE, -98, <<14280, 965, 11483, 1115>>)],
         [invc |-> Dbl(FALSE, -53, <<0, 0, 0, 1504>>), logc |-> Dbl(FALSE, -54, <<12288, 7372, 9511, 1264>>), logctail |-> Dbl(FALSE, -98, <<15708, 6170, 13643, 1550>>)],
         [invc |-> Dbl(FALSE, -53, <<0, 0, 0, 1496>>), logc |-> Dbl(FALSE, -54, <<10240, 3927, 6978, 1286>>), logctail |-> Dbl(FALSE, -99, <<8349, 12867, 878, 1593>>)],
         [invc |-> Dbl(FALSE, -53, <<0, 0, 0, 1488>>), logc |-> Dbl(FALSE, -54, <<2048, 2503, 6364, 1308>>), logctail |-> Dbl(TRUE, -97, <<5749, 9631, 15584, 1993>>)],
         [invc |-> Dbl(FALSE, -53, <<0, 0, 0, 1480>>), logc |-> Dbl(FALSE, -54, <<12288, 14428, 7689, 1330>>), logctail |-> Dbl(TRUE, -97, <<6308, 11307, 2193, 1928>>)],
         [invc |-> Dbl(FALSE, -53, <<0, 0, 0, 1472>>), logc |-> Dbl(FALSE, -54, <<8192, 7394, 10976, 1352>>), logctail |-> Dbl(FALSE, -97, <<1881, 1427, 9992, 1967>>)],
         [invc |-> Dbl(FALSE, -53, <<0, 0, 0, 1464>>), logc |-> Dbl(FALSE, -54, <<4096, 3875, 16245, 1374>>), logctail |-> Dbl(FALSE, -98, <<239, 14709, 7902, 2027>>)],
         [invc |-> Dbl(FALSE, -53, <<0, 0, 0, 1456>>), logc |-> Dbl(FALSE, -54, <<8192, 15717, 7133, 1397>>), logctail |-> Dbl(TRUE, -99, <<9692, 8849, 12960, 1666>>)]>>]

\* The constants of erf: efx = 2 / sqrt(pi) - 1, erx = erf(1) rounded to
\* 24 bits, tiny = 1e-300, and the coefficients of the rational
\* approximations on [0, 0.84375), pp / qq, on [0.84375, 1.25), pa / qa,
\* on [1.25, 1 / 0.35), ra / sa, and on [1 / 0.35, 6), rb / sb.  The first
\* entry of an array is coefficient 0.
erf_data ==
    [efx |-> Dbl(FALSE, -55, <<7017, 2131, 11176, 1051>>),
     erx |-> Dbl(FALSE, -53, <<0, 0, 11286, 1730>>),
     tiny |-> Dbl(FALSE, -1049, <<13145, 3043, 8700, 1371>>),
     pp |-> <<Dbl(FALSE, -55, <<7016, 2131, 11176, 1051>>),
              Dbl(TRUE, -54, <<14611, 9330, 6102, 1331>>),
              Dbl(TRUE, -58, <<6479, 12124, 9501, 1866>>),
              Dbl(TRUE, -60, <<10468, 3481, 10514, 1512>>),
              Dbl(TRUE, -68, <<5804, 2048, 11617, 1594>>)>>,
     qq |-> <<SignedZero(FALSE),
              Dbl(FALSE, -54, <<7177, 14187, 14236, 1629>>),
              Dbl(FALSE, -56, <<3770, 5339, 5317, 1065>>),
              Dbl(FALSE, -60, <<11023, 4941, 556, 1332>>),
              Dbl(FALSE, -65, <<6672, 2160, 7314, 1111>>),
              Dbl(TRUE, -70, <<8480, 2697, 1076, 1063>>)>>,
     pa |-> <<Dbl(TRUE, -61, <<13624, 15325, 7051, 1238>>),
              Dbl(FALSE, -54, <<13133, 13898, 4106, 1699>>),
              Dbl(TRUE, -54, <<1009, 12003, 9231, 1524>>),
              Dbl(FALSE, -54, <<8420, 324, 15528, 1303>>),
              Dbl(TRUE, -56, <<10476, 13560, 14723, 1816>>),
              Dbl(FALSE, -57, <<5611, 9822, 9061, 1162>>),
              Dbl(TRUE, -61, <<1855, 10840, 13184, 1135>>)>>,
     qa |-> <<SignedZero(FALSE),
              Dbl(FALSE, -56, <<8995, 9147, 9825, 1743>>),
              Dbl(FALSE, -53, <<12083, 2989, 12041, 1106>>),
              Dbl(FALSE, -56, <<10663, 9855, 13773, 1176>>),
              Dbl(FALSE, -55, <<13599, 7564, 9742, 1033>>),
              Dbl(FALSE, -59, <<7452, 11591, 7206, 1787>>),
              Dbl(FALSE, -59, <<5405, 7380, 13637, 1570>>)>>,
     ra |-> <<Dbl(TRUE, -59, <<9269, 53, 294, 1293>>),
              Dbl(TRUE, -53, <<13152, 4841, 366, 1421>>),
              Dbl(TRUE, -49, <<10022, 1731, 8260, 1351>>),
              Dbl(TRUE, -47, <<9101, 4910, 174, 1996>>),
              Dbl(TRUE, -45, <<8806, 4256, 2840, 1299>>),
              Dbl(TRUE, -45, <<11186, 12082, 13774, 1476>>),
              Dbl(TRUE, -46, <<4850, 8083, 9813, 1300>>),
              Dbl(TRUE, -49, <<604, 6763, 3836, 1256>>)>>,
     sa |-> <<SignedZero(FALSE),
              Dbl(FALSE, -48, <<13959, 13761, 11163, 1257>>),
              Dbl(FALSE, -45, <<10017, 2475, 4293, 1101>>),
              Dbl(FALSE, -44, <<6769, 5672, 4317, 1738>>),
              Dbl(FALSE, -43, <<10344, 1968, 12690, 1290>>),
              Dbl(FALSE, -44, <<788, 7616, 533, 1716>>),
              Dbl(FALSE, -46, <<11820, 14626, 2622, 1738>>),
              Dbl(FALSE, -50, <<2707, 14625, 16120, 1681>>),
              Dbl(TRUE, -57, <<6754, 14802, 16174, 1979>>)>>,
     rb |-> <<Dbl(TRUE, -59, <<12106, 10145, 291, 1293>>),
              Dbl(TRUE, -53, <<1502, 778, 15271, 1636>>),
              Dbl(TRUE, -48, <<6490, 5502, 8341, 1136>>),
              Dbl(TRUE, -45, <<11672, 3863, 1492, 1285>>),
              Dbl(TRUE, -43, <<12840, 3543, 2177, 1275>>),
              Dbl(TRUE, -42, <<6546, 10425, 1558, 1025>>),
              Dbl(TRUE, -44, <<14399, 12144, 1257, 1934>>)>>,
     sb |-> <<SignedZero(FALSE),
              Dbl(FALSE, -48, <<4496, 6261, 10418, 1941>>),
              Dbl(FALSE, -44, <<7946, 2158, 2786, 1303>>),
              Dbl(FALSE, -42, <<4376, 8821, 11953, 1536>>),
              Dbl(FALSE, -41, <<9322, 8752, 15222, 1599>>),
              Dbl(FALSE, -41, <<15334, 15228, 8604, 1276>>),
              Dbl(FALSE, -44, <<10083, 7807, 1870, 1898>>),
              Dbl(TRUE, -48, <<11618, 2500, 3620, 1436>>)>>]


\* math.exp(x), and exp(x + xtail) as pow computes it.
Exp(x) == Call("Exp", <<x, Zero>>)
exp_inline(x, xtail) == Call("Exp", <<x, xtail>>)


\* math.exp(x) for xtail = 0, infinite where math.exp overflows, and the
\* exponential of pow, exp(x + xtail) for a finite x and a small xtail:
\* x = k * ln 2 / N + r with k = ki the integer nearest to x * N / ln 2,
\* read from the low bits of kd = x * InvLn2N + Shift, and
\* exp(x) = 2^(ki / N) * exp(r) = scale + scale * tmp.  Where
\* 512 <= |x| < 1024 the result is made by specialcase from scale divided
\* by 2^1009 when ki is positive (up) and multiplied by 2^1022 when it is
\* negative: it is infinite or normal in the first case, and may be
\* subnormal in the second, where scale + scale * tmp below 1 is rounded
\* as the subnormal it becomes.
Exp_body(x, xtail) ==
    LET specialcase(tmp, scale, up) ==
            IF up THEN Mul(Bound(0, 1009), Fma(scale, tmp, scale))
            ELSE LET st == Mul(scale, tmp)
                     y == Add(scale, st)
                     lo == Add(Sub(scale, y), st)
                     hi == Add(One, y)
                     lo2 == Add(Add(Sub(One, hi), y), lo)
                     y2 == Sub(Add(hi, lo2), One)
                 IN Seq2(<<st, y>>,
                         IF Lt(y, One)
                         THEN Seq2(<<lo, hi, lo2, y2>>,
                                   Mul(Bound(0, -1022), IF IsZero(y2) THEN Zero ELSE y2))
                         ELSE Mul(Bound(0, -1022), y))
        exp(D) ==
            LET kd0 == Fma(x, D.InvLn2N, D.Shift)
                low == kd0.m[1] + W * kd0.m[2]
                ki == IF low >= 2^27 THEN low - 2^28 ELSE low
                kd == Sub(kd0, D.Shift)
                r == Add(xtail, Fma(kd, D.NegLn2loN, Fma(kd, D.NegLn2hiN, x)))
                r2 == Mul(r, r)
                row == D.tab[(ki % 128) + 1]
                q == Fma(Fma(r, D.poly[2], D.poly[1]), r2, Add(r, row.tail))
                tmp == Fma(Fma(r, D.poly[4], D.poly[3]), Mul(r2, r2), q)
                e == row.scale.e + ki \div 128
            IN Seq2(<<kd0, kd, r, r2, q>>,
                    IF Lt(Abs(x), Bound(0, 9))
                    THEN Fma(tmp, Dbl(FALSE, e, row.scale.m), Dbl(FALSE, e, row.scale.m))
                    ELSE specialcase(tmp, Dbl(FALSE, IF ki >= 0 THEN e - 1009 ELSE e + 1022,
                                              row.scale.m), ki >= 0))
    IN IF IsNaN(x) THEN x
       ELSE IF IsInf(x) THEN (IF x.neg THEN Zero ELSE x)
       ELSE IF Lt(Abs(x), Bound(0, -54)) THEN Add(One, x)
       ELSE IF Ge(Abs(x), Bound(0, 10)) THEN (IF x.neg THEN Zero ELSE Inf(FALSE))
       ELSE exp(exp_data)

\* math.log(x) for x > 0.  For 0.9375 <= x < 1.0 + 0x1.09p-4 (log_near) it
\* is the polynomial B in r = x - 1, its leading terms r - r * r / 2 in two
\* parts, r split at c = 2^27.  Otherwise (log_far) x = 2^k * z with z in
\* [0x1.6p-1, 0x1.6p0), i the interval of z, r = z * invc - 1 and
\* log(x) = k * ln 2 + logc + log(1 + r).
Ln_body(x) ==
    LET log_near(B, r, c) ==
            LET r2 == Mul(r, r)
                r3 == Mul(r, r2)
                b123 == Fma(r2, B[4], Fma(r, B[3], B[2]))
                b456 == Fma(r2, B[7], Fma(r, B[6], B[5]))
                b789 == Fma(r3, B[11], Fma(r2, B[10], Fma(r, B[9], B[8])))
                rhi == Fma(Neg(c), r, Fma(r, c, r))
                rhi2 == Mul(rhi, rhi)
                hi == Fma(rhi2, B[1], r)
                lo == Fma(Mul(B[1], Sub(r, rhi)), Add(rhi, r), Fma(rhi2, B[1], Sub(r, hi)))
            IN IF IsZero(r) THEN Zero
               ELSE Seq2(<<r, r2, r3, rhi, rhi2, hi>>,
                         Add(hi, Fma(Fma(Fma(b789, r3, b456), r3, b123), r3, lo)))
        log_far(D, kd, r, w) ==
            LET hi == Add(r, w)
                r2 == Mul(r, r)
                lo == Fma(r2, D.poly[1], Fma(kd, D.ln2lo, Add(Sub(w, hi), r)))
                q == Fma(Fma(r, D.poly[5], D.poly[4]), r2, Fma(r, D.poly[3], D.poly[2]))
            IN Seq2(<<w, r, hi, r2>>, Add(Fma(Mul(r, r2), q, lo), hi))
        log(D, y) ==
            LET top == (y.m[4] - 2^10) \div 8 - 48
                k == y.e + 53 - (IF top < 0 THEN 1 ELSE 0)
                row == D.tab[(top % 128) + 1]
            IN IF Ge(x, Bound(917504, -1)) /\ Lt(x, Bound(67840, 0))
               THEN log_near(D.poly1, Sub(x, One), Bound(0, 27))
               ELSE log_far(D, Whole(k), Fma(Dbl(FALSE, y.e - k, y.m), row.invc, Neg(One)),
                            Fma(Whole(k), D.ln2hi, row.logc))
    IN IF x.cls # "num" THEN x ELSE log(log_data, Normal(x))

\* The logarithm of pow, for a finite x > 0, in two parts hi and lo:
\* x = 2^k * z with z in [0x1.69555p-1, 0x1.69555p0), i the interval of z
\* and r = z * invc - 1.
log_inline(x) ==
    LET poly(A, r, t1, lo1) ==
            LET ar == Mul(r, A[1])
                t2 == Add(r, t1)
                ar2 == Mul(r, ar)
                hi == Add(t2, ar2)
                p == Fma(ar2, Fma(Fma(r, A[7], A[6]), ar2, Fma(r, A[5], A[4])), Fma(r, A[3], A[2]))
                lo == Fma(Mul(r, ar2), p,
                          Add(Add(Add(lo1, Add(Sub(t1, t2), r)), Fma(ar, r, Neg(ar2))),
                              Add(Sub(t2, hi), ar2)))
                yy == Add(hi, lo)
            IN Seq2(<<t1, lo1, r, ar, t2, ar2, hi, lo>>,
                    [hi |-> yy, lo |-> Add(Sub(hi, yy), lo)])
        log(D, y) ==
            LET top == (y.m[4] - 2^10) * 2^10 + y.m[3] \div 16 - 431445
                k == y.e + 53 - (IF top < 0 THEN 1 ELSE 0)
                row == D.tab[(top % 2^20) \div 2^13 + 1]
            IN poly(D.poly, Fma(Dbl(FALSE, y.e - k, y.m), row.invc, Neg(One)),
                    Fma(Whole(k), D.ln2hi, row.logc), Fma(Whole(k), D.ln2lo, row.logctail))
    IN log(pow_log_data, Normal(x))

\* x ** y for y = 2.0, infinite where ** raises OverflowError: the cases
\* that Python settles itself and, for the others, pow(|x|, y), which is
\* exp(y * log(|x|)), the product in two parts.
Pow_body(x, y) ==
    LET pow(l, ehi) == exp_inline(ehi, Fma(y, l.lo, Fma(l.hi, y, Neg(ehi))))
        log(l) == pow(l, Mul(y, l.hi))
    IN IF IsNaN(x) THEN x
       ELSE IF IsInf(x) THEN Inf(FALSE)
       ELSE IF IsZero(x) THEN Zero
       ELSE IF Abs(x) = One THEN One
       ELSE log(log_inline(Abs(x)))

\* c[i] + s * c[i + 1], c[i] being entry i + 1 of c.
Pair(c, i, s) == Add(c[i + 1], Mul(s, c[i + 2]))

\* math.erf(x), s being arg(|x|): below 0.84375 in magnitude erf_small,
\* x + x * (pp / qq)(s) with s = x * x; below 1.25 erx + P / Q, P and Q
\* the polynomials pa and qa in s = |x| - 1; below 6, 1 - r / |x| with
\* r = exp(-x * x - 0.5625 + R / S) and s = 1 / (x * x), the exponential
\* being the product of two, the first of z, which is |x| without the low
\* 32 bits of its mantissa, and R / S being Ra / Sa below 1 / 0.35 (the
\* float whose leading 32 bits are 0x4006DB6E) and Rb / Sb from there on;
\* and from 6 on 1 less tiny.  Its sign is that of x.
Erf_body(x) ==
    LET erf(D, ax, s) ==
            LET s2 == Mul(s, s)
                s4 == Mul(s2, s2)
                s6 == Mul(s4, s2)
                z == Dbl(FALSE, ax.e, <<0, 0, ax.m[3] - (ax.m[3] % 16), ax.m[4]>>)
                erf_small ==
                    Add(x, Mul(x, Div(Add(Add(Pair(D.pp, 0, s), Mul(s2, Pair(D.pp, 2, s))),
                                          Mul(s4, D.pp[5])),
                                      Add(Add(Add(One, Mul(s, D.qq[2])), Mul(s2, Pair(D.qq, 2, s))),
                                          Mul(s4, Pair(D.qq, 4, s))))))
                P == Add(Add(Add(Pair(D.pa, 0, s), Mul(s2, Pair(D.pa, 2, s))),
                             Mul(s4, Pair(D.pa, 4, s))), Mul(s6, D.pa[7]))
                Q == Add(Add(Add(Add(One, Mul(s, D.qa[2])), Mul(s2, Pair(D.qa, 2, s))),
                             Mul(s4, Pair(D.qa, 4, s))), Mul(s6, D.qa[7]))
                Ra == Add(Add(Add(Pair(D.ra, 0, s), Mul(s2, Pair(D.ra, 2, s))),
                              Mul(s4, Pair(D.ra, 4, s))), Mul(s6, Pair(D.ra, 6, s)))
                Sa == Add(Add(Add(Add(Add(One, Mul(s, D.sa[2])), Mul(s2, Pair(D.sa, 2, s))),
                                  Mul(s4, Pair(D.sa, 4, s))), Mul(s6, Pair(D.sa, 6, s))),
                          Mul(Mul(s4, s4), D.sa[9]))
                Rb == Add(Add(Add(Pair(D.rb, 0, s), Mul(s2, Pair(D.rb, 2, s))),
                              Mul(s4, Pair(D.rb, 4, s))), Mul(s6, D.rb[7]))
                Sb == Add(Add(Add(Add(One, Mul(s, D.sb[2])), Mul(s2, Pair(D.sb, 2, s))),
                              Mul(s4, Pair(D.sb, 4, s))), Mul(s6, Pair(D.sb, 6, s)))
                r == Mul(Exp(Sub(Mul(Neg(z), z), Bound(131072, -1))),
                         Exp(Add(Mul(Sub(z, ax), Add(z, ax)),
                                 IF Lt(ax, Bound(449390, 1)) THEN Div(Ra, Sa) ELSE Div(Rb, Sb))))
            IN IF Lt(ax, Bound(0, -1015))
               THEN Mul(Bound(0, -4), Add(Mul(Bound(0, 4), x), Mul(Mul(Bound(0, 4), D.efx), x)))
               ELSE IF Lt(ax, Bound(0, -28)) THEN Add(x, Mul(D.efx, x))
               ELSE IF Lt(ax, Bound(720896, -1)) THEN Seq2(<<s, s2, s4>>, erf_small)
               ELSE IF Lt(ax, Bound(262144, 0))
               THEN Seq2(<<s, s2, s4, s6>>,
                         IF x.neg THEN Sub(Neg(D.erx), Div(P, Q)) ELSE Add(D.erx, Div(P, Q)))
               ELSE IF Lt(ax, Bound(524288, 2))
               THEN Seq2(<<s, s2, s4, s6>>,
                         IF x.neg THEN Sub(Div(r, ax), One) ELSE Sub(One, Div(r, ax)))
               ELSE IF x.neg THEN Sub(D.tiny, One) ELSE Sub(One, D.tiny)
        arg(ax) == IF Lt(ax, Bound(720896, -1)) THEN Mul(x, x)
                   ELSE IF Lt(ax, Bound(262144, 0)) THEN Sub(ax, One)
                   ELSE Div(One, Mul(ax, ax))
    IN IF IsNaN(x) THEN x
       ELSE IF IsInf(x) THEN (IF x.neg THEN Neg(One) ELSE One)
       ELSE erf(erf_data, Abs(x), arg(Abs(x)))

\* math.sqrt(2)
SQRT2 == Sqrt(Two)

----------------------------------------------------------------------------
(* pricing.py                                                              *)

NoExc == "none"

\* A call's outcome: the exception it raises (NoExc when it returns) and
\* the value it returns.
Raise(e) == [exc |-> e]
Return(v) == [exc |-> NoExc, val |-> v]

\* Whether x ** 2 raises OverflowError: x is finite and pow(x, 2.0) is not.
\* (Below 2^511 in magnitude the square is below 2^1022.)
PowOverflows(x) == x.cls = "num" /\ Ge(Abs(x), Bound(0, 511)) /\ IsInf(Pow(x, Two))

\* math.pi
PI == Dbl(FALSE, -51, <<11544, 4368, 8117, 1608>>)
INV_SQRT_2PI == Div(One, Sqrt(Mul(Two, PI)))

\* (1.0 / math.sqrt(2 * math.pi)) * math.exp(-0.5 * x**2), when x**2 does
\* not raise.
normal_pdf_body(x) == Mul(INV_SQRT_2PI, Exp(Mul(Neg(Half), Pow(x, Two))))

\* 0.5 * (1 + math.erf(x / math.sqrt(2)))
normal_cdf_body(x) ==
    LET erf == Erf(Div(x, SQRT2))
    IN Seq2(erf, Mul(Half, Add(One, erf)))

\* The dataclass BlackScholes(S, K, T, r, sigma).
BlackScholes(S, K, T, r, sigma) == [S |-> S, K |-> K, T |-> T, r |-> r, sigma |-> sigma]

\* What d1 raises: its own ValueError when T <= 0 or sigma <= 0, then the
\* errors of S / K, of math.log, of sigma**2 and of the division by
\* sigma * sqrt(T).
d1_exc_body(bs) ==
    IF Le(bs.T, Zero) \/ Le(bs.sigma, Zero) THEN "ValueError"
    ELSE IF IsZero(bs.K) THEN "ZeroDivisionError"
    ELSE IF Le(Div(bs.S, bs.K), Zero) THEN "ValueError"
    ELSE IF PowOverflows(bs.sigma) THEN "OverflowError"
    ELSE IF IsZero(Mul(bs.sigma, Sqrt(bs.T))) THEN "ZeroDivisionError"
    ELSE NoExc

\* (log(S / K) + (r + 0.5 * sigma**2) * T) / (sigma * sqrt(T)), when d1_exc
\* is NoExc.
d1_body(bs) ==
    LET log == Ln(Div(bs.S, bs.K))
    IN Seq2(log, Div(Add(log, Mul(Add(bs.r, Mul(Half, Pow(bs.sigma, Two))), bs.T)),
                     Mul(bs.sigma, Sqrt(bs.T))))

\* d1 - sigma * sqrt(T)
d2_body(bs) ==
    LET dd1 == d1(bs)
    IN Seq2(dd1, Sub(dd1, Mul(bs.sigma, Sqrt(bs.T))))

\* math.exp(-r * T), and whether it raises OverflowError: its argument is
\* finite and exp of it is not.  (Below 512 exp is below 2^739.)
discount(bs) == Exp(Mul(Neg(bs.r), bs.T))
discount_exc(bs) ==
    LET x == Mul(Neg(bs.r), bs.T)
    IN IF x.cls = "num" /\ Ge(x, Bound(0, 9)) /\ IsInf(Exp(x)) THEN "OverflowError" ELSE NoExc

\* S * N(d1) - K * exp(-r * T) * N(d2)
call_price_body(bs) ==
    LET N1 == normal_cdf(d1(bs))
        N2 == normal_cdf(d2(bs))
    IN Seq2(<<N1, N2>>, Sub(Mul(bs.S, N1), Mul(Mul(bs.K, discount(bs)), N2)))

\* K * exp(-r * T) * N(-d2) - S * N(-d1)
put_price_body(bs) ==
    LET N2 == normal_cdf(Neg(d2(bs)))
        N1 == normal_cdf(Neg(d1(bs)))
    IN Seq2(<<N2, N1>>, Sub(Mul(Mul(bs.K, discount(bs)), N2), Mul(bs.S, N1)))

\* What call_price and put_price raise: call_price evaluates d1 first and
\* then math.exp, put_price math.exp first and then d2 and d1.
price_exc_body(bs, option_type) ==
    IF option_type = "call"
    THEN (LET e == d1_exc(bs) IN IF e # NoExc THEN e ELSE discount_exc(bs))
    ELSE (LET e == discount_exc(bs) IN IF e # NoExc THEN e ELSE d1_exc(bs))

black_scholes_price_body(S, K, r, sigma, T, option_type) ==
    LET bs == BlackScholes(S, K, T, r, sigma)
        e == price_exc(bs, option_type)
    IN IF e # NoExc THEN Raise(e)
       ELSE Return(IF option_type = "call" THEN call_price(bs) ELSE put_price(bs))

\* The fields of Greeks.from_bs, from d1 = dd1, d2 = dd2 and pdf_d1 = pdf.
delta(dd1, option_type) ==
    IF option_type = "call" THEN normal_cdf(dd1) ELSE Sub(normal_cdf(dd1), One)

gamma(bs, pdf) == Div(pdf, Mul(Mul(bs.S, bs.sigma), Sqrt(bs.T)))

vega(bs, pdf) == Mul(Mul(bs.S, pdf), Sqrt(bs.T))

theta(bs, dd2, pdf, option_type) ==
    LET first_term == Neg(Div(Mul(Mul(bs.S, pdf), bs.sigma), Mul(Two, Sqrt(bs.T))))
        N2 == normal_cdf(IF option_type = "call" THEN dd2 ELSE Neg(dd2))
        second == Mul(Mul(Mul(bs.r, bs.K), discount(bs)), N2)
    IN Seq2(N2, Div(IF option_type = "call" THEN Sub(first_term, second)
                    ELSE Add(first_term, second), Whole(365)))

rho(bs, dd2, option_type) ==
    LET N2 == normal_cdf(IF option_type = "call" THEN dd2 ELSE Neg(dd2))
    IN Seq2(N2, IF option_type = "call"
                THEN Mul(Mul(Mul(bs.K, bs.T), discount(bs)), N2)
                ELSE Mul(Mul(Mul(Neg(bs.K), bs.T), discount(bs)), N2))

\* Greeks.from_bs, when d1 = dd1 and d2 = dd2 have not raised: the
\* OverflowError of d1**2 in normal_pdf, the division by S * sigma *
\* sqrt(T) in gamma, math.exp in theta, or the five Greeks.
from_bs_body(bs, option_type, dd1, dd2) ==
    IF PowOverflows(dd1) THEN Raise("OverflowError")
    ELSE IF IsZero(Mul(Mul(bs.S, bs.sigma), Sqrt(bs.T))) THEN Raise("ZeroDivisionError")
    ELSE IF discount_exc(bs) # NoExc THEN Raise("OverflowError")
    ELSE LET pdf_d1 == normal_pdf(dd1)
         IN Return([delta |-> delta(dd1, option_type),
                    gamma |-> gamma(bs, pdf_d1),
                    vega |-> vega(bs, pdf_d1),
                    theta |-> theta(bs, dd2, pdf_d1, option_type),
                    rho |-> rho(bs, dd2, option_type)])

black_scholes_greeks_body(S, K, r, sigma, T, option_type) ==
    LET bs == BlackScholes(S, K, T, r, sigma)
        e == d1_exc(bs)
    IN IF e # NoExc THEN Raise(e)
       ELSE from_bs(bs, option_type, d1(bs), d2(bs))

----------------------------------------------------------------------------
(* vol.py: get_implied_volatility                                          *)

\* Python's None where a float is expected.
None == [cls |-> "none", neg |-> FALSE, e |-> 0, m |-> Zero4]
IsNone(x) == x.cls = "none"

\* Defaults of get_implied_volatility: initial_guess = 0.2, tol = 1e-6,
\* max_iterations = 100.
INITIAL_GUESS == Micro(200000)
\* A faulty variant of TOL: a tolerance of 1e-2.
TOL_loose == Micro(10000)
TOL == Micro(1)
MAX_ITERATIONS == 100

\* 1e-8, below which vega is degenerate; 5, the cap on sigma.
VEGA_EPS == Div(One, Whole(10^8))
SIGMA_CAP == Whole(5)

\* The solver's frame on entry: its arguments, sigma = initial_guess, no
\* iteration done.  ret is its outcome once it has one.
iv_frame(market_price, S, K, T, r, option_type, initial_guess, tol, max_iterations) ==
    [market_price |-> market_price, S |-> S, K |-> K, T |-> T, r |-> r,
     option_type |-> option_type, tol |-> tol, max_iterations |-> max_iterations,
     sigma |-> initial_guess, n |-> 0, running |-> TRUE, ret |-> Return(None)]

\* A faulty variant of iv_return: the initial guess returned in place of
\* the sigma that converged.
iv_return_initial_guess(f, v) ==
    [f EXCEPT !.running = FALSE,
              !.ret = Return(IF IsNone(v) THEN v ELSE INITIAL_GUESS)]

iv_return(f, v) == [f EXCEPT !.running = FALSE, !.ret = Return(v)]
iv_raise(f, e) == [f EXCEPT !.running = FALSE, !.ret = Raise(e)]

\* The guardrails before the loop, and a loop of zero iterations.
iv_enter(f) ==
    IF IsNone(f.market_price) \/ Le(f.market_price, Zero) THEN iv_return(f, None)
    ELSE IF Le(f.T, Zero) THEN iv_return(f, None)
    ELSE IF f.max_iterations <= 0 THEN iv_return(f, None)
    ELSE f

\* A faulty variant of iv_iterate_body: the vega-degeneracy test made
\* before the convergence test.
iv_iterate_body_vega_first(f) ==
    LET price == black_scholes_price(f.S, f.K, f.r, f.sigma, f.T, f.option_type)
        greeks == black_scholes_greeks(f.S, f.K, f.r, f.sigma, f.T, f.option_type)
        price_difference == Sub(price.val, f.market_price)
        sigma == Sub(f.sigma, Div(price_difference, greeks.val.vega))
        g == [f EXCEPT !.n = f.n + 1]
    IN IF price.exc # NoExc THEN iv_raise(g, price.exc)
       ELSE IF greeks.exc # NoExc THEN iv_raise(g, greeks.exc)
       ELSE IF Lt(Abs(greeks.val.vega), VEGA_EPS) THEN iv_return(g, None)
       ELSE IF Lt(Abs(price_difference), f.tol) THEN iv_return(g, f.sigma)
       ELSE IF Le(sigma, Zero) \/ Gt(sigma, SIGMA_CAP)
       THEN iv_return([g EXCEPT !.sigma = sigma], None)
       ELSE IF g.n >= f.max_iterations THEN iv_return([g EXCEPT !.sigma = sigma], None)
       ELSE [g EXCEPT !.sigma = sigma]

\* One pass of the loop body from frame f; the loop ends without a result
\* after max_iterations passes.
iv_iterate_body(f) ==
    LET price == black_scholes_price(f.S, f.K, f.r, f.sigma, f.T, f.option_type)
        greeks == black_scholes_greeks(f.S, f.K, f.r, f.sigma, f.T, f.option_type)
        price_difference == Sub(price.val, f.market_price)
        sigma == Sub(f.sigma, Div(price_difference, greeks.val.vega))
        g == [f EXCEPT !.n = f.n + 1]
    IN IF price.exc # NoExc THEN iv_raise(g, price.exc)
       ELSE IF greeks.exc # NoExc THEN iv_raise(g, greeks.exc)
       ELSE IF Lt(Abs(price_difference), f.tol) THEN iv_return(g, f.sigma)
       ELSE IF Lt(Abs(greeks.val.vega), VEGA_EPS) THEN iv_return(g, None)
       ELSE IF Le(sigma, Zero) \/ Gt(sigma, SIGMA_CAP)
       THEN iv_return([g EXCEPT !.sigma = sigma], None)
       ELSE IF g.n >= f.max_iterations THEN iv_return([g EXCEPT !.sigma = sigma], None)
       ELSE [g EXCEPT !.sigma = sigma]

----------------------------------------------------------------------------
(* engine.py and utils.py                                                  *)

\* Python's None where a string is expected.
NoneStr == "None"

FALLBACK_RATE == Micro(50000)

\* get_latest_risk_free_rate_from_supabase in the environment env: whether
\* both credentials are set, how the HTTP exchange ends, the body of the
\* response, and the encoding of sys.stdout.  Each warning printed (lines
\* 21, 52, 56) begins with U+26A0 U+FE0F, and print raises
\* UnicodeEncodeError where sys.stdout cannot encode it.  Every exception
\* inside the try block, that of a print included, is caught at line 55;
\* the handler prints in its turn (line 56), and what that print raises
\* leaves the function.  A row with a number, or without rate_annual, is
\* returned from with nothing printed.
get_latest_risk_free_rate_from_supabase(env) ==
    LET warned(rate, source) ==
            IF env.stdout # "utf-8" THEN Raise("UnicodeEncodeError")
            ELSE Return(<<rate, source>>)
    IN IF ~env.creds THEN warned(FALLBACK_RATE, "fallback_no_creds")
       ELSE IF env.http \in {"transport_error", "status_error", "invalid_json"}
       THEN warned(FALLBACK_RATE, "fallback_error")
       ELSE IF env.body = "list_of_rows"
       THEN IF env.row = "not_a_mapping" THEN warned(FALLBACK_RATE, "fallback_error")
            ELSE IF env.row = "no_rate_annual" THEN Return(<<FALLBACK_RATE, "supabase">>)
            ELSE IF env.row \in {"null", "non_numeric"} THEN warned(FALLBACK_RATE, "fallback_error")
            ELSE Return(<<env.rate, "supabase">>)
       ELSE warned(FALLBACK_RATE, "fallback_empty_table")

\* A faulty variant of _mid_price: a quote of zero taken as usable.
_mid_price_zero_usable(bid, ask, last_price) ==
    IF ~IsNone(bid) /\ ~IsNone(ask) /\ Ge(bid, Zero) /\ Ge(ask, Zero)
    THEN Div(Add(bid, ask), Two)
    ELSE IF ~IsNone(last_price) /\ Ge(last_price, Zero) THEN last_price
    ELSE None

\* engine._mid_price
_mid_price(bid, ask, last_price) ==
    IF ~IsNone(bid) /\ ~IsNone(ask) /\ Gt(bid, Zero) /\ Gt(ask, Zero)
    THEN Div(Add(bid, ask), Two)
    ELSE IF ~IsNone(last_price) /\ Gt(last_price, Zero) THEN last_price
    ELSE None

\* utils.mid_price
mid_price(bid, ask, last) ==
    IF ~IsNone(bid) /\ ~IsNone(ask) /\ Gt(bid, Zero) /\ Gt(ask, Zero)
    THEN Div(Add(bid, ask), Two)
    ELSE IF ~IsNone(last) /\ Gt(last, Zero) THEN last
    ELSE None

SIGNAL_THRESHOLD == Micro(100000)

\* A faulty variant of _classify_signal: the thresholds included.
_classify_signal_inclusive(mispricing_pct) ==
    IF IsNone(mispricing_pct) THEN NoneStr
    ELSE IF Ge(mispricing_pct, SIGNAL_THRESHOLD) THEN "BUY"
    ELSE IF Le(mispricing_pct, Neg(SIGNAL_THRESHOLD)) THEN "OVERPRICED"
    ELSE "FAIR"

_classify_signal(mispricing_pct) ==
    IF IsNone(mispricing_pct) THEN NoneStr
    ELSE IF Gt(mispricing_pct, SIGNAL_THRESHOLD) THEN "BUY"
    ELSE IF Lt(mispricing_pct, Neg(SIGNAL_THRESHOLD)) THEN "OVERPRICED"
    ELSE "FAIR"

\* max(x, y): y when y > x, else x.
Max(x, y) == IF Gt(y, x) THEN y ELSE x

\* evaluate_contract, step 2: the result for an expired option.
expired_result(a, r, r_source) ==
    [status |-> "expired_or_intrinsic_only", r |-> r, r_source |-> r_source,
     T |-> a.expiry_T_years,
     intrinsic_value |-> IF a.option_type = "call"
                         THEN Max(Sub(a.spot_price, a.strike), Zero)
                         ELSE Max(Sub(a.strike, a.spot_price), Zero)]

\* evaluate_contract, the result when sigma is None.
no_sigma_result(a, r, r_source) ==
    [status |-> "no_sigma", r |-> r, r_source |-> r_source,
     T |-> a.expiry_T_years, note |-> "Could not determine implied volatility."]

\* A faulty variant of compute_mispricing_pct: relative to the model price.
compute_mispricing_pct_of_model(model_price, market_price) ==
    IF ~IsNone(market_price) /\ Gt(market_price, Zero)
    THEN Div(Sub(model_price, market_price), model_price)
    ELSE None

\* evaluate_contract, step 6: the mispricing of the model price.
compute_mispricing_pct(model_price, market_price) ==
    IF ~IsNone(market_price) /\ Gt(market_price, Zero)
    THEN Div(Sub(model_price, market_price), market_price)
    ELSE None

\* evaluate_contract, steps 5 to 7, from the locals l: the outcome of the
\* call, an exception of the pricing formulas or the priced result.
priced_outcome_body(a, l) ==
    LET model_price == black_scholes_price(a.spot_price, a.strike, l.r, l.sigma,
                                           a.expiry_T_years, a.option_type)
        greeks == black_scholes_greeks(a.spot_price, a.strike, l.r, l.sigma,
                                       a.expiry_T_years, a.option_type)
        mispricing_pct == compute_mispricing_pct(model_price.val, l.market_price)
        signal == _classify_signal(mispricing_pct)
    IN IF model_price.exc # NoExc THEN Raise(model_price.exc)
       ELSE IF greeks.exc # NoExc THEN Raise(greeks.exc)
       ELSE Return(
            [status |-> "ok",
             inputs |-> [spot_price |-> a.spot_price, strike |-> a.strike,
                         T_years |-> a.expiry_T_years, option_type |-> a.option_type,
                         bid |-> a.bid, ask |-> a.ask, last_price |-> a.last_price,
                         market_price |-> l.market_price, iv_source |-> l.iv_source],
             model |-> [r |-> l.r, r_source |-> l.r_source, sigma |-> l.sigma,
                        model_price |-> model_price.val, greeks |-> greeks.val],
             market_comparison |-> [market_price |-> l.market_price,
                                    mispricing_pct |-> mispricing_pct,
                                    signal |-> signal]])

\* chain_loader._build_prediction_rows: the override it passes to
\* evaluate_contract, whether it keeps a result, and the row it builds from
\* a result it keeps.
CHAIN_IV_OVERRIDE == None
prediction_row_kept(result) == result.status = "ok"
prediction_row(ticker, expiry_date, strike, option_type, result, now_iso) ==
    [ticker |-> ticker,
     expiry_date |-> expiry_date,
     strike |-> strike,
     option_type |-> option_type,
     model_price |-> result.model.model_price,
     market_price |-> result.market_comparison.market_price,
     mispricing_pct |-> result.market_comparison.mispricing_pct,
     signal |-> result.market_comparison.signal,
     delta |-> result.model.greeks.delta,
     gamma |-> result.model.greeks.gamma,
     vega |-> result.model.greeks.vega,
     theta |-> result.model.greeks.theta,
     rho |-> result.model.greeks.rho,
     created_at |-> now_iso]

\* A faulty variant of iv_source_of: a market price preferred to an override.
iv_source_of_market_first(iv_override, market_price) ==
    IF ~IsNone(market_price) THEN "implied_from_market"
    ELSE IF ~IsNone(iv_override) THEN "override"
    ELSE "none"

\* evaluate_contract, step 4: where sigma comes from.
iv_source_of(iv_override, market_price) ==
    IF ~IsNone(iv_override) THEN "override"
    ELSE IF IsNone(market_price) THEN "none"
    ELSE "implied_from_market"

----------------------------------------------------------------------------
(* The definitions applied through Call                                    *)

Call(f, args) ==
    IF args = args
    THEN CASE f = "Norm" -> Norm_body(args[1])
           [] f = "Round" -> Round_body(args[1], args[2], args[3])
           [] f = "DivStep" -> DivStep_body(args[1], args[2], args[3])
           [] f = "Add" -> Add_body(args[1], args[2])
           [] f = "Mul" -> Mul_body(args[1], args[2])
           [] f = "Div" -> Div_body(args[1], args[2])
           [] f = "Fma" -> Fma_body(args[1], args[2], args[3])
           [] f = "Sqrt" -> Sqrt_body(args[1])
           [] f = "Ln" -> Ln_body(args[1])
           [] f = "Exp" -> Exp_body(args[1], args[2])
           [] f = "Erf" -> Erf_body(args[1])
           [] f = "Pow" -> Pow_body(args[1], args[2])
           [] f = "normal_pdf" -> normal_pdf_body(args[1])
           [] f = "normal_cdf" -> normal_cdf_body(args[1])
           [] f = "d1_exc" -> d1_exc_body(args[1])
           [] f = "d1" -> d1_body(args[1])
           [] f = "d2" -> d2_body(args[1])
           [] f = "call_price" -> call_price_body(args[1])
           [] f = "put_price" -> put_price_body(args[1])
           [] f = "price_exc" -> price_exc_body(args[1], args[2])
           [] f = "black_scholes_price" -> black_scholes_price_body(args[1], args[2], args[3], args[4], args[5], args[6])
           [] f = "from_bs" -> from_bs_body(args[1], args[2], args[3], args[4])
           [] f = "black_scholes_greeks" -> black_scholes_greeks_body(args[1], args[2], args[3], args[4], args[5], args[6])
           [] f = "iv_iterate" -> iv_iterate_body(args[1])
           [] f = "priced_outcome" -> priced_outcome_body(args[1], args[2])
    ELSE args

----------------------------------------------------------------------------
(* Inputs                                                                  *)

\* Quotes of the market-price resolver: None and the whole prices -1..MaxQuote.
MaxQuote == 2
QuoteGrid == {None} \cup {Whole(q) : q \in -1..MaxQuote}

\* Mispricings of the classifier: None, zero, and 0.10 and -0.10 displaced
\* by up to MaxEps millionths either way.
MaxEps == 2
PctGrid ==
    {None, Zero} \cup {Micro(100000 + e) : e \in -MaxEps..MaxEps}
                 \cup {Micro(-100000 + e) : e \in -MaxEps..MaxEps}

\* Environments of the rate provider; the table's rate is 0.03 or -1000,
\* and sys.stdout encodes to UTF-8 or to ASCII.
Env(creds, http, body, row, rate, stdout) ==
    [creds |-> creds, http |-> http, body |-> body, row |-> row, rate |-> rate,
     stdout |-> stdout]
Envs ==
    UNION {{Env(FALSE, "ok", "empty_list", "number", Zero, s)}
           \cup {Env(TRUE, h, "empty_list", "number", Zero, s) :
                   h \in {"transport_error", "status_error", "invalid_json"}}
           \cup {Env(TRUE, "ok", b, "number", Zero, s) : b \in {"not_a_list", "empty_list"}}
           \cup {Env(TRUE, "ok", "list_of_rows", w, Zero, s) :
                   w \in {"not_a_mapping", "no_rate_annual", "null", "non_numeric"}}
           \cup {Env(TRUE, "ok", "list_of_rows", "number", x, s) :
                   x \in {Micro(30000), Whole(-1000)}} : s \in {"utf-8", "ascii"}}

\* 5e-7, a price below tol.
TinyPrice == Div(Whole(5), Whole(10^7))

\* Contracts.
Spots == {Whole(100)}
Kinds == {"call", "put"}

\* The quotes <<bid, ask, last_price>> offered for a contract: for the call
\* with strike 1000, whose price at the initial guess is 0, also a last
\* price of 5e-7 alone.
QuotesFor(strike, option_type) ==
    { <<None, None, None>>,
      <<Whole(10), Micro(10901200), Micro(5573500)>>,
      <<Zero, Micro(10901200), Micro(5573500)>>,
      <<Whole(10), Whole(-1), Zero>>,
      <<Whole(10), None, Micro(10000)>> }
    \cup IF strike = Whole(1000) /\ option_type = "call"
         THEN {<<None, None, TinyPrice>>}
         ELSE {}

\* The arguments of evaluate_contract: strikes of 90, 100 and 1000, expiries
\* of -0.5, 0, 0.01 and 1 years, and no override or one of -0.3, 0 and 0.2.
Contracts ==
    UNION {{[spot_price |-> S, strike |-> K, expiry_T_years |-> T, option_type |-> o,
             bid |-> q[1], ask |-> q[2], last_price |-> q[3], iv_override |-> v] :
              S \in Spots, T \in {Micro(-500000), Zero, Micro(10000), One},
              v \in {None, Micro(-300000), Zero, Micro(200000)},
              q \in QuotesFor(K, o)} :
           K \in {Whole(90), Whole(100), Whole(1000)}, o \in Kinds}

\* The environments evaluate_contract is run in: no credentials, with each
\* encoding of sys.stdout, and a row with each rate, which the rate provider
\* returns with nothing printed.
ContractEnvs ==
    {e \in Envs : \/ ~e.creds
                  \/ (e.body = "list_of_rows" /\ e.row = "number" /\ e.stdout = "utf-8")}

\* predict and load_chain are plain functions, which the server runs in the
\* threads of a pool: the calls of two threads are followed.
Threads == {1, 2}

\* Calls in progress at the same time: those of the rate provider and of
\* evaluate_contract for the call at the money, expired or with a year to
\* expiry, priced from an override.
OverlapContract(a) ==
    /\ IsNone(a.bid) /\ IsNone(a.ask) /\ IsNone(a.last_price)
    /\ a.option_type = "call"
    /\ a.strike = Whole(100)
    /\ a.expiry_T_years \in {Zero, One}
    /\ a.iv_override = Micro(200000)

\* Direct calls of the solver: market prices (5e-7, below tol, among them)
\* and, at the rate 0.05, market_price = black_scholes_price at each
\* volatility sigma0 of the round trip, where that price exists.
RoundTripSigmas == {Micro(100000), Micro(200000), One}
MarketPrices(S, K, T, r, option_type) ==
    {None, Zero, Micro(10450600), Micro(10000), TinyPrice}
    \cup IF r # FALLBACK_RATE THEN {}
         ELSE {p.val : p \in {q \in {black_scholes_price(S, K, r, sigma0, T, option_type) :
                                          sigma0 \in RoundTripSigmas} : q.exc = NoExc}}
SolverStrikes == {Whole(100), Whole(1000)}
SolverExpiries == {Zero, Micro(10000), Micro(707000), One}
SolverRates == {FALLBACK_RATE, Whole(-1000)}

\* The iteration limits of the solver are its default and SmallIterations.
SmallIterations == 2

\* At the rate -1000 and T = 0.707 the discounted strike is infinite and the
\* price is not a number. Direct calls of the pricing functions take the
\* volatilities -0.3, 0, 0.2 and 1e-7 and also the expiry 1e-12: sigma *
\* sqrt(T) is then as small as 1e-13.
PriceSigmas == {Micro(-300000), Zero, Micro(200000), Div(One, Whole(10^7))}
PriceExpiries == SolverExpiries \cup {Dbl(FALSE, -92, <<10769, 1207, 14744, 1125>>)}

----------------------------------------------------------------------------
(* The state machine                                                       *)

VARIABLES
    pc,     \* where each thread is: "idle", "http_wait" (inside httpx.get,
            \* engine.py line 43, the request sent), "iv_loop" (in the
            \* solver's loop), "ec_sigma" (evaluate_contract with sigma
            \* resolved), "done"
    op,     \* the function each thread has called
    args,   \* its arguments
    env,    \* the environment of the process: the credentials, the table
            \* behind the endpoint and the encoding of sys.stdout
    resp,   \* the environment as the request of each thread found it, of
            \* which its response is made
    loc,    \* the locals of evaluate_contract in each thread
    iv,     \* the frame of get_implied_volatility in each thread
    ret,    \* the outcome of the call of each thread
    calls   \* how many times the call of each thread has invoked each function

vars == <<pc, op, args, env, resp, loc, iv, ret, calls>>

NoCalls ==
    [get_latest_risk_free_rate_from_supabase |-> 0, _mid_price |-> 0,
     get_implied_volatility |-> 0, black_scholes_price |-> 0,
     black_scholes_greeks |-> 0]
NoLocals ==
    [r |-> None, r_source |-> NoneStr, market_price |-> None, sigma |-> None,
     iv_source |-> NoneStr]
NoFrame == [iv_frame(None, Zero, Zero, Zero, Zero, "call", Zero, Zero, 0)
                EXCEPT !.running = FALSE]
NoEnv == Env(FALSE, "ok", "empty_list", "number", Zero, "utf-8")
NoArgs == [none |-> TRUE]

Init ==
    /\ pc = [t \in Threads |-> "idle"]
    /\ op = [t \in Threads |-> NoneStr]
    /\ args = [t \in Threads |-> NoArgs]
    /\ env = NoEnv
    /\ resp = [t \in Threads |-> NoEnv]
    /\ loc = [t \in Threads |-> NoLocals]
    /\ iv = [t \in Threads |-> NoFrame]
    /\ ret = [t \in Threads |-> Return(None)]
    /\ calls = [t \in Threads |-> NoCalls]

\* The calls in progress are among those followed side by side: the table
\* has a row with a number and nothing is printed.
Overlap ==
    /\ env.creds /\ env.body = "list_of_rows" /\ env.row = "number"
    /\ env.stdout = "utf-8"
    /\ \A u \in Threads :
         \/ pc[u] = "idle"
         \/ op[u] = "get_latest_risk_free_rate_from_supabase"
         \/ (op[u] = "evaluate_contract" /\ OverlapContract(args[u]))

\* What a call that thread t begins is given, of the set all.  The first
\* idle thread of the pool takes the next call: any element when no call
\* is in progress, and beside the calls in progress those of some.
Given(t, all, some) ==
    IF pc[t] # "idle" \/ \E u \in Threads : u < t /\ pc[u] = "idle" THEN {}
    ELSE IF \A u \in Threads : pc[u] = "idle" THEN all
    ELSE IF Overlap THEN some
    ELSE {}

\* A call by thread t of a function that returns at once, which begins
\* when no call is in progress; the call itself is counted where the
\* function is one of those counted.
Finish(t, f, a, outcome) ==
    /\ pc' = [pc EXCEPT ![t] = "done"]
    /\ op' = [op EXCEPT ![t] = f]
    /\ args' = [args EXCEPT ![t] = a]
    /\ ret' = [ret EXCEPT ![t] = outcome]
    /\ calls' = [calls EXCEPT ![t] = IF f \in DOMAIN NoCalls
                                     THEN [NoCalls EXCEPT ![f] = 1]
                                     ELSE NoCalls]
    /\ UNCHANGED <<env, resp, loc, iv>>

call__mid_price(t) ==
    \E bid \in Given(t, QuoteGrid, {}), ask \in QuoteGrid, last_price \in QuoteGrid :
        Finish(t, "_mid_price", [bid |-> bid, ask |-> ask, last_price |-> last_price],
                Return(_mid_price(bid, ask, last_price)))

call_mid_price(t) ==
    \E bid \in Given(t, QuoteGrid, {}), ask \in QuoteGrid, last \in QuoteGrid :
        Finish(t, "mid_price", [bid |-> bid, ask |-> ask, last |-> last],
                Return(mid_price(bid, ask, last)))

call__classify_signal(t) ==
    \E mispricing_pct \in Given(t, PctGrid, {}) :
        Finish(t, "_classify_signal", [mispricing_pct |-> mispricing_pct],
                Return(_classify_signal(mispricing_pct)))

\* get_latest_risk_free_rate_from_supabase, lines 16-43: with no credentials
\* it prints and returns; with credentials it sends its request and waits
\* in httpx.get for the response, which is made of the table as the request
\* finds it.
call_get_latest_risk_free_rate_from_supabase(t) ==
    /\ \E e \in Given(t, Envs, {env}) :
         /\ op' = [op EXCEPT ![t] = "get_latest_risk_free_rate_from_supabase"]
         /\ args' = [args EXCEPT ![t] = NoArgs]
         /\ env' = e
         /\ calls' = [calls EXCEPT ![t] = [NoCalls EXCEPT
                                            !.get_latest_risk_free_rate_from_supabase = 1]]
         /\ IF e.creds
            THEN /\ pc' = [pc EXCEPT ![t] = "http_wait"]
                 /\ resp' = [resp EXCEPT ![t] = e]
                 /\ UNCHANGED ret
            ELSE /\ pc' = [pc EXCEPT ![t] = "done"]
                 /\ ret' = [ret EXCEPT ![t] = get_latest_risk_free_rate_from_supabase(e)]
                 /\ UNCHANGED resp
         /\ UNCHANGED <<loc, iv>>

call_black_scholes_price(t) ==
    \E S \in Given(t, Spots, {}), K \in SolverStrikes, r \in SolverRates,
       sigma \in PriceSigmas, T \in PriceExpiries, option_type \in Kinds :
        Finish(t, "black_scholes_price", [S |-> S, K |-> K, r |-> r, sigma |-> sigma,
                 T |-> T, option_type |-> option_type],
                black_scholes_price(S, K, r, sigma, T, option_type))

call_black_scholes_greeks(t) ==
    \E S \in Given(t, Spots, {}), K \in SolverStrikes, r \in SolverRates,
       sigma \in PriceSigmas, T \in PriceExpiries, option_type \in Kinds :
        Finish(t, "black_scholes_greeks", [S |-> S, K |-> K, r |-> r, sigma |-> sigma,
                 T |-> T, option_type |-> option_type],
                black_scholes_greeks(S, K, r, sigma, T, option_type))

call_get_implied_volatility(t) ==
    /\ \E S \in Given(t, Spots, {}), K \in SolverStrikes, T \in SolverExpiries,
          r \in SolverRates, option_type \in Kinds,
          max_iterations \in {SmallIterations, MAX_ITERATIONS} :
         \E market_price \in MarketPrices(S, K, T, r, option_type) :
           LET f == iv_enter(iv_frame(market_price, S, K, T, r, option_type,
                                      INITIAL_GUESS, TOL, max_iterations))
           IN /\ pc' = [pc EXCEPT ![t] = IF f.running THEN "iv_loop" ELSE "done"]
              /\ op' = [op EXCEPT ![t] = "get_implied_volatility"]
              /\ args' = [args EXCEPT ![t] =
                            [market_price |-> market_price, S |-> S, K |-> K, T |-> T,
                             r |-> r, option_type |-> option_type,
                             max_iterations |-> max_iterations]]
              /\ iv' = [iv EXCEPT ![t] = f]
              /\ ret' = [ret EXCEPT ![t] = f.ret]
              /\ calls' = [calls EXCEPT ![t] = [NoCalls EXCEPT !.get_implied_volatility = 1]]
              /\ UNCHANGED <<env, resp, loc>>

\* The pricing calls of one pass of the solver's loop, or of step 5 of
\* evaluate_contract: black_scholes_greeks is not reached when
\* black_scholes_price raises.
Priced(c, S, K, r, sigma, T, option_type) ==
    IF price_exc(BlackScholes(S, K, T, r, sigma), option_type) # NoExc
    THEN [c EXCEPT !.black_scholes_price = @ + 1]
    ELSE [c EXCEPT !.black_scholes_price = @ + 1, !.black_scholes_greeks = @ + 1]

\* One pass of the solver's loop in thread t.  When the solver ends inside
\* evaluate_contract its result becomes sigma (lines 129-137) or its
\* exception ends the call.
iv_step(t) ==
    /\ pc[t] = "iv_loop"
    /\ iv' = [iv EXCEPT ![t] = iv_iterate(@)]
    /\ calls' = [calls EXCEPT ![t] = Priced(@, iv[t].S, iv[t].K, iv[t].r, iv[t].sigma,
                                            iv[t].T, iv[t].option_type)]
    /\ IF iv'[t].running
       THEN UNCHANGED <<pc, ret, loc>>
       ELSE IF op[t] = "get_implied_volatility" \/ iv'[t].ret.exc # NoExc
       THEN /\ pc' = [pc EXCEPT ![t] = "done"]
            /\ ret' = [ret EXCEPT ![t] = iv'[t].ret]
            /\ UNCHANGED loc
       ELSE /\ pc' = [pc EXCEPT ![t] = "ec_sigma"]
            /\ loc' = [loc EXCEPT ![t].sigma = iv'[t].ret.val,
                                  ![t].iv_source = "implied_from_market"]
            /\ UNCHANGED ret
    /\ UNCHANGED <<op, args, env, resp>>

\* evaluate_contract in thread t, lines 100-137, from the outcome rate of
\* the rate provider up to the call of the solver, market_price being what
\* _mid_price returns at line 118; what the rate provider raises at line
\* 100 ends the call.
evaluate_contract_enter(t, a, rate, market_price) ==
    LET r == rate.val[1]
        iv_source == iv_source_of(a.iv_override, market_price)
        f == iv_enter(iv_frame(market_price, a.spot_price, a.strike, a.expiry_T_years,
                               r, a.option_type, INITIAL_GUESS, TOL, MAX_ITERATIONS))
        l == [NoLocals EXCEPT !.r = r, !.r_source = rate.val[2]]
        c == [NoCalls EXCEPT !.get_latest_risk_free_rate_from_supabase = 1]
    IN IF rate.exc # NoExc
       THEN /\ pc' = [pc EXCEPT ![t] = "done"]
            /\ ret' = [ret EXCEPT ![t] = rate]
            /\ calls' = [calls EXCEPT ![t] = c]
            /\ UNCHANGED <<loc, iv>>
       ELSE IF Le(a.expiry_T_years, Zero)
       THEN /\ pc' = [pc EXCEPT ![t] = "done"]
            /\ ret' = [ret EXCEPT ![t] = Return(expired_result(a, r, rate.val[2]))]
            /\ loc' = [loc EXCEPT ![t] = l]
            /\ calls' = [calls EXCEPT ![t] = c]
            /\ UNCHANGED iv
       ELSE IF iv_source = "implied_from_market"
       THEN /\ iv' = [iv EXCEPT ![t] = f]
            /\ calls' = [calls EXCEPT ![t] =
                           [c EXCEPT !._mid_price = 1, !.get_implied_volatility = 1]]
            /\ IF f.running
               THEN /\ pc' = [pc EXCEPT ![t] = "iv_loop"]
                    /\ loc' = [loc EXCEPT ![t] = [l EXCEPT !.market_price = market_price]]
               ELSE /\ pc' = [pc EXCEPT ![t] = "ec_sigma"]
                    /\ loc' = [loc EXCEPT ![t] = [l EXCEPT !.market_price = market_price,
                                                           !.sigma = f.ret.val,
                                                           !.iv_source = iv_source]]
            /\ UNCHANGED ret
       ELSE /\ pc' = [pc EXCEPT ![t] = "ec_sigma"]
            /\ loc' = [loc EXCEPT ![t] = [l EXCEPT !.market_price = market_price,
                                                   !.sigma = a.iv_override,
                                                   !.iv_source = iv_source]]
            /\ calls' = [calls EXCEPT ![t] = [c EXCEPT !._mid_price = 1]]
            /\ UNCHANGED <<iv, ret>>

\* evaluate_contract called by thread t: its call of the rate provider at
\* line 100 waits in httpx.get where there are credentials, and otherwise
\* returns or raises and evaluate_contract goes on.
call_evaluate_contract(t) ==
    /\ LET Among(all) == Given(t, all, {c \in all : OverlapContract(c)})
       IN \E a \in Among(Contracts), e \in Given(t, ContractEnvs, {env}) :
         /\ op' = [op EXCEPT ![t] = "evaluate_contract"]
         /\ args' = [args EXCEPT ![t] = a]
         /\ env' = e
         /\ IF e.creds
            THEN /\ pc' = [pc EXCEPT ![t] = "http_wait"]
                 /\ resp' = [resp EXCEPT ![t] = e]
                 /\ calls' = [calls EXCEPT ![t] = [NoCalls EXCEPT
                                !.get_latest_risk_free_rate_from_supabase = 1]]
                 /\ UNCHANGED <<loc, iv, ret>>
            ELSE /\ evaluate_contract_enter(t, a, get_latest_risk_free_rate_from_supabase(e),
                                            _mid_price(a.bid, a.ask, a.last_price))
                 /\ UNCHANGED resp

\* httpx.get returns to thread t, or raises, and the rate provider goes on
\* from line 43 to its end; inside evaluate_contract the call goes on from
\* line 100.
httpx_get_returns(t) ==
    /\ pc[t] = "http_wait"
    /\ IF op[t] = "get_latest_risk_free_rate_from_supabase"
       THEN /\ pc' = [pc EXCEPT ![t] = "done"]
            /\ ret' = [ret EXCEPT ![t] = get_latest_risk_free_rate_from_supabase(resp[t])]
            /\ UNCHANGED <<loc, iv, calls>>
       ELSE evaluate_contract_enter(t, args[t],
                                    get_latest_risk_free_rate_from_supabase(resp[t]),
                                    _mid_price(args[t].bid, args[t].ask, args[t].last_price))
    /\ UNCHANGED <<op, args, env, resp>>

\* The latest rate of the table changes while a request is in flight.
table_changes ==
    /\ Overlap
    /\ \E t \in Threads : pc[t] = "http_wait"
    /\ \E e \in Envs \ {env} : [e EXCEPT !.rate = env.rate] = env /\ env' = e
    /\ UNCHANGED <<pc, op, args, resp, loc, iv, ret, calls>>

\* evaluate_contract in thread t, lines 139-196, from sigma on.
evaluate_contract_finish(t) ==
    /\ pc[t] = "ec_sigma"
    /\ pc' = [pc EXCEPT ![t] = "done"]
    /\ IF IsNone(loc[t].sigma)
       THEN /\ ret' = [ret EXCEPT ![t] =
                         Return(no_sigma_result(args[t], loc[t].r, loc[t].r_source))]
            /\ UNCHANGED calls
       ELSE /\ ret' = [ret EXCEPT ![t] = priced_outcome(args[t], loc[t])]
            /\ calls' = [calls EXCEPT ![t] =
                           Priced(@, args[t].spot_price, args[t].strike, loc[t].r,
                                  loc[t].sigma, args[t].expiry_T_years,
                                  args[t].option_type)]
    /\ UNCHANGED <<op, args, env, resp, loc, iv>>

\* The caller takes the outcome of thread t; its next call starts afresh.
reset(t) ==
    /\ pc[t] = "done"
    /\ pc' = [pc EXCEPT ![t] = "idle"]
    /\ op' = [op EXCEPT ![t] = NoneStr]
    /\ args' = [args EXCEPT ![t] = NoArgs]
    /\ env' = IF \A u \in Threads \ {t} : pc[u] = "idle" THEN NoEnv ELSE env
    /\ resp' = [resp EXCEPT ![t] = NoEnv]
    /\ loc' = [loc EXCEPT ![t] = NoLocals]
    /\ iv' = [iv EXCEPT ![t] = NoFrame]
    /\ ret' = [ret EXCEPT ![t] = Return(None)]
    /\ calls' = [calls EXCEPT ![t] = NoCalls]

Next ==
    \/ \E t \in Threads :
         \/ call__mid_price(t)
         \/ call_mid_price(t)
         \/ call__classify_signal(t)
         \/ call_get_latest_risk_free_rate_from_supabase(t)
         \/ call_black_scholes_price(t)
         \/ call_black_scholes_greeks(t)
         \/ call_get_implied_volatility(t)
         \/ iv_step(t)
         \/ call_evaluate_contract(t)
         \/ httpx_get_returns(t)
         \/ evaluate_contract_finish(t)
         \/ reset(t)
    \/ table_changes

Spec == Init /\ [][Next]_vars

----------------------------------------------------------------------------
(* Properties                                                              *)

\* max(x - y, 0)
Payoff(x, y) == IF Gt(x, y) THEN Sub(x, y) ELSE Zero

\* A quote that is present and strictly positive.
Usable(q) == ~IsNone(q) /\ Gt(q, Zero)

\* The market price the quotes of the call of evaluate_contract by thread t
\* resolve to.
ResolvedMarketPrice(t) ==
    IF Usable(args[t].bid) /\ Usable(args[t].ask)
    THEN Div(Add(args[t].bid, args[t].ask), Two)
    ELSE IF Usable(args[t].last_price) THEN args[t].last_price
    ELSE None

\* C1: a call of evaluate_contract with expiry_T_years <= 0 returns, once it
\* has the rate and whatever the quotes and the override, the expired
\* variant with intrinsic_value = max(S - K, 0) for a call and max(K - S, 0)
\* for a put, and invokes neither the market-price resolver, the solver nor
\* the pricing formulas.
C1_ExpiredIsIntrinsicOnly ==
    \A t \in Threads :
      (op[t] = "evaluate_contract" /\ Le(args[t].expiry_T_years, Zero)) =>
          /\ pc[t] \in {"http_wait", "done"}
          /\ pc[t] = "done" =>
                 /\ ret[t].exc = NoExc
                 /\ ret[t].val.status = "expired_or_intrinsic_only"
                 /\ ret[t].val.intrinsic_value =
                        IF args[t].option_type = "call"
                        THEN Payoff(args[t].spot_price, args[t].strike)
                        ELSE Payoff(args[t].strike, args[t].spot_price)
          /\ calls[t]._mid_price = 0
          /\ calls[t].get_implied_volatility = 0
          /\ calls[t].black_scholes_price = 0
          /\ calls[t].black_scholes_greeks = 0

\* An expired call option evaluated with no credentials set and a
\* sys.stdout that encodes to ASCII: the UnicodeEncodeError of the rate
\* provider ends evaluate_contract before the expiry test.
C1_Witness ==
    \E t \in Threads :
      /\ op[t] = "evaluate_contract" /\ pc[t] = "done"
      /\ Le(args[t].expiry_T_years, Zero)
      /\ args[t].option_type = "call"
      /\ ~env.creds /\ env.stdout = "ascii"
      /\ calls[t].get_latest_risk_free_rate_from_supabase = 1
      /\ ret[t].exc = "UnicodeEncodeError"

\* C2: evaluate_contract reaches black_scholes_price and black_scholes_greeks,
\* directly or through the solver, only with T > 0 and sigma > 0, whatever
\* the override (zero and negative values included), so that no ValueError
\* escapes it.
C2_PricingOnlyWithPositiveSigma ==
    \A t \in Threads :
      op[t] = "evaluate_contract" =>
          /\ (pc[t] = "iv_loop") => (Gt(iv[t].T, Zero) /\ Gt(iv[t].sigma, Zero))
          /\ (pc[t] = "ec_sigma" /\ ~IsNone(loc[t].sigma)) =>
                 (Gt(args[t].expiry_T_years, Zero) /\ Gt(loc[t].sigma, Zero))
          /\ (pc[t] = "done") => ret[t].exc # "ValueError"

\* An override of zero with T > 0: black_scholes_price is reached with
\* sigma = 0 and its ValueError ends evaluate_contract.
C2_Witness ==
    \E t \in Threads :
      /\ op[t] = "evaluate_contract" /\ pc[t] = "done"
      /\ Gt(args[t].expiry_T_years, Zero)
      /\ args[t].iv_override = Zero
      /\ ret[t].exc = "ValueError"
      /\ calls[t].black_scholes_price = 1
      /\ calls[t].black_scholes_greeks = 0

\* C3: in evaluate_contract with T > 0 an override, when supplied, is sigma
\* with source "override" and the solver is not invoked, even when a market
\* price resolves; otherwise, when a market price resolves, sigma is the
\* result of the solver called once with that market price and the
\* contract, with source "implied_from_market"; otherwise there is no sigma.
C3_VolatilityPrecedence ==
    \A t \in Threads :
      (op[t] = "evaluate_contract" /\ pc[t] = "ec_sigma") =>
          /\ Gt(args[t].expiry_T_years, Zero)
          /\ loc[t].market_price = ResolvedMarketPrice(t)
          /\ ~IsNone(args[t].iv_override) =>
                 /\ loc[t].sigma = args[t].iv_override
                 /\ loc[t].iv_source = "override"
                 /\ calls[t].get_implied_volatility = 0
                 /\ iv[t] = NoFrame
          /\ (IsNone(args[t].iv_override) /\ ~IsNone(ResolvedMarketPrice(t))) =>
                 /\ loc[t].iv_source = "implied_from_market"
                 /\ calls[t].get_implied_volatility = 1
                 /\ iv[t].market_price = ResolvedMarketPrice(t)
                 /\ iv[t].S = args[t].spot_price /\ iv[t].K = args[t].strike
                 /\ iv[t].T = args[t].expiry_T_years /\ iv[t].r = loc[t].r
                 /\ iv[t].option_type = args[t].option_type
                 /\ ~iv[t].running
                 /\ iv[t].ret.exc = NoExc
                 /\ loc[t].sigma = iv[t].ret.val
          /\ (IsNone(args[t].iv_override) /\ IsNone(ResolvedMarketPrice(t))) =>
                 /\ IsNone(loc[t].sigma)
                 /\ loc[t].iv_source = "none"
                 /\ calls[t].get_implied_volatility = 0

\* An override used although a market price resolved.
C3_Witness ==
    \E t \in Threads :
      /\ op[t] = "evaluate_contract" /\ pc[t] = "ec_sigma"
      /\ ~IsNone(args[t].iv_override)
      /\ Usable(args[t].bid) /\ Usable(args[t].ask)
      /\ ~IsNone(loc[t].market_price)
      /\ loc[t].sigma = args[t].iv_override
      /\ loc[t].iv_source = "override"
      /\ calls[t].get_implied_volatility = 0

\* C4: every call of evaluate_contract ends with a returned value, not an
\* exception, of exactly one of the three variants: the expired one when
\* T <= 0; for T > 0 the no-volatility one (carrying r, r_source and T)
\* exactly when no override was supplied and either no market price resolves
\* or the solver returned None, and the priced one in every other case.
C4_ExactlyOneReturnedVariant ==
    \A t \in Threads :
      (op[t] = "evaluate_contract" /\ pc[t] = "done") =>
          /\ ret[t].exc = NoExc
          /\ ret[t].val.status \in {"expired_or_intrinsic_only", "no_sigma", "ok"}
          /\ (ret[t].val.status = "expired_or_intrinsic_only")
                 <=> Le(args[t].expiry_T_years, Zero)
          /\ (ret[t].val.status = "no_sigma") <=>
                 /\ Gt(args[t].expiry_T_years, Zero)
                 /\ IsNone(args[t].iv_override)
                 /\ \/ IsNone(ResolvedMarketPrice(t))
                    \/ (~iv[t].running /\ iv[t].ret = Return(None))
          /\ (ret[t].val.status = "no_sigma") =>
                 /\ ret[t].val.r = loc[t].r
                 /\ ret[t].val.r_source = loc[t].r_source
                 /\ ret[t].val.T = args[t].expiry_T_years

\* A rate of -1000 from the table with one year to expiry and a resolved
\* market price: the OverflowError of the solver ends evaluate_contract.
C4_Witness ==
    \E t \in Threads :
      /\ op[t] = "evaluate_contract" /\ pc[t] = "done"
      /\ IsNone(args[t].iv_override)
      /\ ~IsNone(loc[t].market_price)
      /\ loc[t].r = Whole(-1000) /\ loc[t].r_source = "supabase"
      /\ args[t].expiry_T_years = One
      /\ calls[t].get_implied_volatility = 1
      /\ ret[t].exc = "OverflowError"

\* C5: get_implied_volatility never raises: it ends by returning, and each
\* pass of its loop prices with T > 0 and 0 < sigma <= 5.
C5_SolverNeverRaises ==
    \A t \in Threads :
      op[t] = "get_implied_volatility" =>
          /\ (pc[t] = "done") => ret[t].exc = NoExc
          /\ (pc[t] = "iv_loop") =>
                 (Gt(iv[t].T, Zero) /\ Gt(iv[t].sigma, Zero) /\ Le(iv[t].sigma, SIGMA_CAP))

\* The solver called with S = K = 100, T = 1, r = -1000 and a positive
\* market price: math.exp(1000) raises OverflowError in the first pass.
C5_Witness ==
    \E t \in Threads :
      /\ op[t] = "get_implied_volatility" /\ pc[t] = "done"
      /\ Usable(args[t].market_price)
      /\ args[t].S = Whole(100) /\ args[t].K = Whole(100)
      /\ args[t].T = One /\ args[t].r = Whole(-1000)
      /\ ret[t].exc = "OverflowError"

\* C6: get_implied_volatility ends after at most max_iterations evaluations
\* of the price and of vega, by returning a sigma or None, and with None on
\* a degenerate-vega input (strike ten times the spot, 0.01 years to expiry).
C6_SolverEndsWithinMaxIterations ==
    \A t \in Threads :
      op[t] = "get_implied_volatility" =>
          /\ calls[t].black_scholes_price <= args[t].max_iterations
          /\ calls[t].black_scholes_greeks <= args[t].max_iterations
          /\ (pc[t] = "iv_loop") => iv[t].n < args[t].max_iterations
          /\ (pc[t] = "done") =>
                 /\ ret[t].exc = NoExc
                 /\ (args[t].K = Whole(1000) /\ args[t].T = Micro(10000)) => IsNone(ret[t].val)

\* The solver ended in its first pass, after one evaluation of the price,
\* by an exception and not by a result.
C6_Witness ==
    \E t \in Threads :
      /\ op[t] = "get_implied_volatility" /\ pc[t] = "done"
      /\ iv[t].n = 1 /\ ~iv[t].running
      /\ calls[t].black_scholes_price = 1
      /\ calls[t].black_scholes_greeks = 0
      /\ ret[t].exc # NoExc

\* C7: the market-price resolver returns (bid + ask) / 2 when bid and ask are
\* both present and strictly positive, otherwise last when it is present and
\* strictly positive, otherwise None; engine._mid_price and utils.mid_price
\* return the same for the same quotes.
C7_MarketPriceResolver ==
    \A t \in Threads :
      (pc[t] = "done" /\ op[t] \in {"_mid_price", "mid_price"}) =>
          LET last == IF op[t] = "_mid_price" THEN args[t].last_price ELSE args[t].last
              both == Usable(args[t].bid) /\ Usable(args[t].ask)
          IN /\ both => /\ ~IsNone(ret[t].val)
                     /\ Mul(ret[t].val, Two) = Add(args[t].bid, args[t].ask)
             /\ (~both /\ Usable(last)) => ret[t].val = last
             /\ (~both /\ ~Usable(last)) => IsNone(ret[t].val)
             /\ ret[t].val = IF op[t] = "_mid_price"
                            THEN mid_price(args[t].bid, args[t].ask, last)
                            ELSE _mid_price(args[t].bid, args[t].ask, last)

\* A bid of 2 with an ask of zero: the last price 1 is returned, not a mid.
C7_Witness ==
    \E t \in Threads :
      /\ pc[t] = "done" /\ op[t] = "_mid_price"
      /\ args[t].bid = Whole(2) /\ args[t].ask = Zero /\ args[t].last_price = Whole(1)
      /\ ret[t].val = Whole(1)

\* C8: _classify_signal maps None to None, a mispricing above 0.10 to "BUY",
\* one below -0.10 to "OVERPRICED" and every other to "FAIR", 0.10 and -0.10
\* themselves included.
C8_SignalThresholdsAreStrict ==
    \A t \in Threads :
      (pc[t] = "done" /\ op[t] = "_classify_signal") =>
          /\ ret[t].exc = NoExc
          /\ IsNone(args[t].mispricing_pct) => ret[t].val = NoneStr
          /\ ~IsNone(args[t].mispricing_pct) =>
                 /\ Gt(args[t].mispricing_pct, Micro(100000)) => ret[t].val = "BUY"
                 /\ Lt(args[t].mispricing_pct, Micro(-100000)) => ret[t].val = "OVERPRICED"
                 /\ (Le(args[t].mispricing_pct, Micro(100000))
                       /\ Ge(args[t].mispricing_pct, Micro(-100000))) => ret[t].val = "FAIR"

\* A mispricing of exactly 0.10 classified as "FAIR".
C8_Witness ==
    \E t \in Threads :
      /\ pc[t] = "done" /\ op[t] = "_classify_signal"
      /\ args[t].mispricing_pct = Micro(100000)
      /\ ret[t].val = "FAIR"

\* C9: in every priced result mispricing_pct is (model_price - market_price)
\* / market_price when a market price resolved, a resolved market price
\* being strictly positive, and None otherwise; signal is None exactly when
\* mispricing_pct is None.
C9_MispricingOfPricedResult ==
    \A t \in Threads :
      (op[t] = "evaluate_contract" /\ pc[t] = "done" /\ ret[t].exc = NoExc
          /\ ret[t].val.status = "ok") =>
          /\ ret[t].val.market_comparison.market_price = ResolvedMarketPrice(t)
          /\ ret[t].val.inputs.market_price = ResolvedMarketPrice(t)
          /\ ~IsNone(ResolvedMarketPrice(t)) =>
                 /\ Gt(ResolvedMarketPrice(t), Zero)
                 /\ ret[t].val.market_comparison.mispricing_pct =
                        Div(Sub(ret[t].val.model.model_price, ResolvedMarketPrice(t)),
                            ResolvedMarketPrice(t))
          /\ IsNone(ResolvedMarketPrice(t)) =>
                 IsNone(ret[t].val.market_comparison.mispricing_pct)
          /\ (ret[t].val.market_comparison.signal = NoneStr)
                 <=> IsNone(ret[t].val.market_comparison.mispricing_pct)

\* A contract priced from an override with no quotes: market_price,
\* mispricing_pct and signal are all None.
C9_Witness ==
    \E t \in Threads :
      /\ op[t] = "evaluate_contract" /\ pc[t] = "done" /\ ret[t].exc = NoExc
      /\ ret[t].val.status = "ok"
      /\ IsNone(args[t].bid) /\ IsNone(args[t].ask) /\ IsNone(args[t].last_price)
      /\ ret[t].val.inputs.iv_source = "override"
      /\ IsNone(ret[t].val.market_comparison.market_price)
      /\ IsNone(ret[t].val.market_comparison.mispricing_pct)
      /\ ret[t].val.market_comparison.signal = NoneStr

\* C10: get_latest_risk_free_rate_from_supabase never raises: it returns,
\* in every environment, a pair (rate, source) with source one of "supabase",
\* "fallback_no_creds", "fallback_empty_table", "fallback_error", and with
\* the rate 0.05 for every source other than "supabase".
C10_RateProviderAlwaysReturns ==
    \A t \in Threads :
      (pc[t] = "done" /\ op[t] = "get_latest_risk_free_rate_from_supabase") =>
          /\ ret[t].exc = NoExc
          /\ ret[t].val[2] \in {"supabase", "fallback_no_creds", "fallback_empty_table",
                             "fallback_error"}
          /\ ret[t].val[2] # "supabase" => ret[t].val[1] = Micro(50000)

\* A row whose rate_annual is not numeric, with a sys.stdout that encodes
\* to ASCII: the print of the handler raises UnicodeEncodeError.
C10_Witness ==
    \E t \in Threads :
      /\ pc[t] = "done" /\ op[t] = "get_latest_risk_free_rate_from_supabase"
      /\ resp[t].creds /\ resp[t].http = "ok" /\ resp[t].body = "list_of_rows"
      /\ resp[t].row = "non_numeric" /\ resp[t].stdout = "ascii"
      /\ ret[t].exc = "UnicodeEncodeError"

\* C11: for S, K, T, sigma0 > 0 and p = black_scholes_price at sigma0,
\* get_implied_volatility called with market_price = p and its default
\* parameters returns a sigma, not None, with |sigma - sigma0| < 1e-4.
C11_RoundTripRecoversSigma ==
    \A t \in Threads :
      (op[t] = "get_implied_volatility" /\ pc[t] = "done"
          /\ args[t].max_iterations = MAX_ITERATIONS
          /\ Gt(args[t].S, Zero) /\ Gt(args[t].K, Zero) /\ Gt(args[t].T, Zero)) =>
          \A sigma0 \in RoundTripSigmas :
              LET p == black_scholes_price(args[t].S, args[t].K, args[t].r, sigma0, args[t].T,
                                           args[t].option_type)
              IN (p.exc = NoExc /\ args[t].market_price = p.val) =>
                     /\ ret[t].exc = NoExc
                     /\ ~IsNone(ret[t].val)
                     /\ Lt(Abs(Sub(ret[t].val, sigma0)), Micro(100))

\* The price of a call with S = 100, K = 1000, T = 1, r = 0.05 at sigma0 = 1,
\* which is positive, given to the solver: it returns None.
C11_Witness ==
    \E t \in Threads :
      /\ op[t] = "get_implied_volatility" /\ pc[t] = "done"
      /\ args[t].max_iterations = MAX_ITERATIONS
      /\ args[t].S = Whole(100) /\ args[t].K = Whole(1000) /\ args[t].T = One
      /\ args[t].r = Micro(50000) /\ args[t].option_type = "call"
      /\ args[t].market_price =
             black_scholes_price(args[t].S, args[t].K, args[t].r, One, args[t].T, "call").val
      /\ Gt(args[t].market_price, One)
      /\ ret[t] = Return(None)

\* The guardrails of get_implied_volatility: a call whose market_price is
\* None or <= 0, or whose T is <= 0, has returned None with no pass of the
\* loop and no evaluation of the price or of the Greeks.
SolverGuardrails ==
    \A t \in Threads :
      (op[t] = "get_implied_volatility"
          /\ \/ IsNone(args[t].market_price) \/ Le(args[t].market_price, Zero)
             \/ Le(args[t].T, Zero)) =>
          /\ pc[t] = "done"
          /\ ret[t] = Return(None)
          /\ iv[t].n = 0
          /\ calls[t].black_scholes_price = 0
          /\ calls[t].black_scholes_greeks = 0

\* One pass of the loop of a thread from a sigma at which the price and the Greeks are
\* defined: a price within tol of the market price ends the call with that
\* sigma, whatever vega is; otherwise |vega| < 1e-8 ends it with None;
\* otherwise the Newton update is made and ends it with None when it is
\* <= 0 or > 5; otherwise the update is the next sigma.
SolverPassOrder ==
    \A t \in Threads :
      (pc[t] = "iv_loop" /\ iv'[t] # iv[t]) =>
          LET p == black_scholes_price(iv[t].S, iv[t].K, iv[t].r, iv[t].sigma, iv[t].T,
                                       iv[t].option_type)
              g == black_scholes_greeks(iv[t].S, iv[t].K, iv[t].r, iv[t].sigma, iv[t].T,
                                        iv[t].option_type)
          IN (p.exc = NoExc /\ g.exc = NoExc) =>
              LET diff == Sub(p.val, iv[t].market_price)
                  v == g.val.vega
                  converged == Lt(Abs(diff), iv[t].tol)
                  degenerate == Lt(Abs(v), Div(One, Whole(10^8)))
                  update == Sub(iv[t].sigma, Div(diff, v))
                  outside == Le(update, Zero) \/ Gt(update, Whole(5))
              IN /\ converged => (~iv'[t].running /\ iv'[t].ret = Return(iv[t].sigma))
                 /\ (~converged /\ degenerate) =>
                        (~iv'[t].running /\ iv'[t].ret = Return(None))
                 /\ (~converged /\ ~degenerate /\ outside) =>
                        (~iv'[t].running /\ iv'[t].ret = Return(None))
                 /\ (~converged /\ ~degenerate /\ ~outside) =>
                        /\ iv'[t].sigma = update
                        /\ \/ iv'[t].running
                           \/ (iv'[t].n = iv[t].max_iterations /\ iv'[t].ret = Return(None))

\* C12: get_implied_volatility returns None at once, before any evaluation
\* of the price or of vega, when market_price is None or <= 0 or T <= 0; in
\* each pass of its loop the convergence test comes first, then the
\* vega-degeneracy test, then the Newton update, then the bounds test, so
\* that a sigma whose price is within tol is returned even when its vega
\* is below 1e-8.
C12_GuardrailsAndOrderOfTests == []SolverGuardrails /\ [][SolverPassOrder]_vars

\* A market price of 5e-7 for a call with strike ten times the spot: at the
\* initial guess the price is within tol and vega is below 1e-8, and the
\* first pass returns the initial guess.
C12_Witness ==
    \E t \in Threads :
      /\ op[t] = "get_implied_volatility" /\ pc[t] = "done"
      /\ args[t].market_price = TinyPrice
      /\ args[t].K = Whole(1000) /\ args[t].option_type = "call"
      /\ iv[t].n = 1
      /\ Lt(Abs(black_scholes_greeks(iv[t].S, iv[t].K, iv[t].r, iv[t].sigma, iv[t].T,
                                      iv[t].option_type).val.vega), VEGA_EPS)
      /\ ret[t] = Return(INITIAL_GUESS)

\* C13: with the default parameters, every value other than None that
\* get_implied_volatility returns, to a direct caller or to
\* evaluate_contract, is a sigma with 0 < sigma <= 5 at which
\* |black_scholes_price(sigma) - market_price| < 1e-6.
C13_ReturnedSigmaWasTested ==
    \A t \in Threads :
      (pc[t] \in {"done", "ec_sigma"} /\ calls[t].get_implied_volatility = 1
          /\ iv[t].max_iterations = MAX_ITERATIONS
          /\ ~iv[t].running /\ iv[t].ret.exc = NoExc /\ ~IsNone(iv[t].ret.val)) =>
          LET sigma == iv[t].ret.val
              p == black_scholes_price(iv[t].S, iv[t].K, iv[t].r, sigma, iv[t].T,
                                       iv[t].option_type)
          IN /\ Gt(sigma, Zero)
             /\ Le(sigma, Whole(5))
             /\ p.exc = NoExc
             /\ Lt(Abs(Sub(p.val, iv[t].market_price)), Micro(1))

\* A direct call that converged after more than two passes, on a sigma
\* that is not the initial guess.
C13_Witness ==
    \E t \in Threads :
      /\ op[t] = "get_implied_volatility" /\ pc[t] = "done"
      /\ args[t].max_iterations = MAX_ITERATIONS
      /\ ret[t].exc = NoExc /\ ~IsNone(ret[t].val)
      /\ ret[t].val # INITIAL_GUESS
      /\ iv[t].n > 2
      /\ ret[t].val = iv[t].sigma

\* Thread t has called evaluate_contract, which returned a priced result.
PricedResult(t) ==
    /\ op[t] = "evaluate_contract" /\ pc[t] = "done"
    /\ ret[t].exc = NoExc /\ ret[t].val.status = "ok"

\* What holds of a result priced with no override: sigma is the solver's,
\* the model price is within 1e-6 of the market price, and the signal is
\* "FAIR" when the market price is at least 1e-5; the row the chain loader
\* builds from a result it keeps carries that signal.
ImpliedPricingIsFair(t) ==
    (PricedResult(t) /\ IsNone(args[t].iv_override)) =>
        LET mc == ret[t].val.market_comparison
        IN /\ ret[t].val.inputs.iv_source = "implied_from_market"
           /\ ~IsNone(mc.market_price)
           /\ ~iv[t].running /\ iv[t].ret = Return(ret[t].val.model.sigma)
           /\ Lt(Abs(Sub(ret[t].val.model.model_price, mc.market_price)), Micro(1))
           /\ Ge(mc.market_price, Micro(10)) => mc.signal = "FAIR"
           /\ (args[t].iv_override = CHAIN_IV_OVERRIDE /\ prediction_row_kept(ret[t].val)) =>
                  \A ticker \in {"AAPL"}, expiry_date \in {"2026-01-16"},
                     now_iso \in {"2025-01-01T00:00:00+00:00"} :
                      LET row == prediction_row(ticker, expiry_date, args[t].strike,
                                                args[t].option_type, ret[t].val, now_iso)
                      IN Ge(row.market_price, Micro(10)) => row.signal = "FAIR"

\* C14 as stated: a result priced with no override has its model price
\* within 1e-6 of the market price and, for a market price of at least
\* 1e-5, the signal "FAIR", as has the row the chain loader builds from it;
\* "BUY" and "OVERPRICED" occur only in results priced with an override.
C14_SignalsOnlyWithOverride ==
    \A t \in Threads :
      /\ ImpliedPricingIsFair(t)
      /\ (PricedResult(t) /\ ret[t].val.market_comparison.signal \in {"BUY", "OVERPRICED"}) =>
             ~IsNone(args[t].iv_override)

\* C14, amended: as stated, except that "BUY" and "OVERPRICED" occur only
\* in results priced with an override or with a market price below 1e-5.
C14_SignalsOnlyWithOverrideOrTinyPrice ==
    \A t \in Threads :
      /\ ImpliedPricingIsFair(t)
      /\ (PricedResult(t) /\ ret[t].val.market_comparison.signal \in {"BUY", "OVERPRICED"}) =>
             \/ ~IsNone(args[t].iv_override)
             \/ Lt(ret[t].val.market_comparison.market_price, Micro(10))

\* A contract with a mid price of 10.4506, priced with no override at a
\* sigma the solver reached in more than one pass: the model price is not
\* the market price, and the signal is "FAIR".
C14_Witness ==
    \E t \in Threads :
      /\ PricedResult(t) /\ IsNone(args[t].iv_override)
      /\ ret[t].val.market_comparison.market_price = Micro(10450600)
      /\ iv[t].n > 1
      /\ ret[t].val.model.sigma # INITIAL_GUESS
      /\ ret[t].val.model.model_price # ret[t].val.market_comparison.market_price
      /\ ret[t].val.market_comparison.signal = "FAIR"

====
